---- MODULE Spec2Model ----
(***************************************************************************)
(* Q-Chat frontend (uiux-group3/chatapp): the optimistic replica kept by   *)
(* ForumFeed (question list) and QuestionThread (one question and its      *)
(* comments), the requests they issue and the continuations that run when  *)
(* the responses arrive.  The HTTP backend is not part of the frontend     *)
(* sources; it is modelled from the interface description (section 6 of    *)
(* the design document) and marked as such.                                *)
(*                                                                         *)
(* Text is modelled as sequences of one-character strings so that trim(),  *)
(* split(',') and join(', ') are computed, not assumed.                    *)
(***************************************************************************)
EXTENDS Integers, Sequences, FiniteSets, TLC

\* ------------------------------------------------------------------ bounds
MaxReq == 3         \* requests the feed's user and timers may start in one run
MaxThreadReq == 2   \* requests the thread's user and timers may start in one run
MaxInFlight == 2    \* requests the user and the timers keep in flight at once
MaxCount == 2       \* largest reaction count drawn for the toggle inputs
MaxToggles == 2     \* toggles applied in a row in the toggle specification
MaxLiveReq == 3     \* numbered requests of the run with unbounded polling
MaxChatReq == 4     \* numbered requests of a run of the chat window
MaxTagLen == 4      \* longest tags text drawn, the documented example apart
MaxAppReq == 3      \* requests the components mounted by App may start in one run
MaxOwnReq == 3      \* requests of the run in which the viewer owns every comment

\* --------------------------------------------------------------- constants
None == "none"                        \* null / undefined
NoId == 0                             \* null where an id is expected
Users == {"alice", "bob"}
QIds == {1, 2}
CIds == {1, 2}
ThreadQ == 1                          \* the question the thread view shows

\* ForumFeed.tsx REACTION_TYPES (lines 25-30), Markdown.tsx lines 300-305
REACTION_TYPES == <<"like", "insightful", "curious", "funny">>
Kinds == {REACTION_TYPES[i] : i \in 1..Len(REACTION_TYPES)}
ClickKinds == {"like", "funny"}       \* the kinds clicked in the replica runs

Blank == <<" ", "\r">>   \* a text of white space only
TextA == <<"a">>
TextB == <<"b">>
TypedContents == {Blank, TextB}    \* what the user types into a form
TypedTags == {<<"j", ",", " ", "x">>}   \* what the user types into the tags input of the thread
NoTags == <<>>
TagsJ == << <<"j">> >>

\* ------------------------------------------------------------ text helpers
\* the characters String.prototype.trim() strips: WhiteSpace and
\* LineTerminator of ECMAScript; those a string of this module cannot hold
\* are written by their code point
WhiteSpace ==
    {" ", "\t", "\n", "\r", "\f", "U+000B", "U+00A0", "U+1680", "U+2000",
     "U+2001", "U+2002", "U+2003", "U+2004", "U+2005", "U+2006", "U+2007",
     "U+2008", "U+2009", "U+200A", "U+2028", "U+2029", "U+202F", "U+205F",
     "U+3000", "U+FEFF"}

IsSpace(c) == c \in WhiteSpace

RECURSIVE TrimLeft(_)
TrimLeft(s) ==
    IF s = <<>> THEN <<>>
    ELSE IF IsSpace(Head(s)) THEN TrimLeft(Tail(s)) ELSE s

RECURSIVE TrimRight(_)
TrimRight(s) ==
    IF s = <<>> THEN <<>>
    ELSE IF IsSpace(s[Len(s)]) THEN TrimRight(SubSeq(s, 1, Len(s) - 1)) ELSE s

\* String.prototype.trim
Trim(s) == TrimRight(TrimLeft(s))

\* !s.trim() : the validation every submit handler starts with
IsBlankText(s) == Trim(s) = <<>>

\* s.split(',') : the pieces between commas, empty pieces kept
RECURSIVE SplitComma(_)
SplitComma(s) ==
    IF \A i \in 1..Len(s) : s[i] # ","
    THEN <<s>>
    ELSE LET i == CHOOSE j \in 1..Len(s) :
                      s[j] = "," /\ \A h \in 1..(j - 1) : s[h] # ","
         IN  <<SubSeq(s, 1, i - 1)>> \o SplitComma(SubSeq(s, i + 1, Len(s)))

\* a plausible slip: the pieces are not trimmed
ParseTagsNoTrim(s) == SelectSeq(SplitComma(s), LAMBDA t : t # <<>>)

\* inputTags.split(',').map(t => t.trim()).filter(Boolean)
ParseTags(s) ==
    LET pieces == SplitComma(s)
        trimmed == [i \in 1..Len(pieces) |-> Trim(pieces[i])]
    IN  SelectSeq(trimmed, LAMBDA t : t # <<>>)

\* q.tags.join(', ')
RECURSIVE JoinTags(_)
JoinTags(tags) ==
    IF tags = <<>> THEN <<>>
    ELSE IF Len(tags) = 1 THEN tags[1]
    ELSE tags[1] \o <<",", " ">> \o JoinTags(Tail(tags))

\* ------------------------------------------------------- reaction toggling
\* q.reactions?.[k] || 0 : a kind missing from the map reads as 0
Count(m, k) == IF k \in DOMAIN m THEN m[k] ELSE 0

Max0(n) == IF n > 0 THEN n ELSE 0

\* newCounts[k] = v on a copy of the map
Put(m, k, v) == [x \in (DOMAIN m) \cup {k} |-> IF x = k THEN v ELSE m[x]]

\* a plausible slip: the old reaction is not taken back when another kind is chosen
ToggleKeepOld(e, k) ==
    LET isRemoving == e.user_reaction = k
        c1 == IF isRemoving
              THEN Put(e.reactions, k, Max0(Count(e.reactions, k) - 1))
              ELSE Put(e.reactions, k, Count(e.reactions, k) + 1)
    IN  [e EXCEPT !.user_reaction = IF isRemoving THEN None ELSE k,
                  !.reactions = c1]

\* a plausible slip: clicking the active kind counts it again instead of removing it
ToggleNoRemove(e, k) ==
    LET c1 == IF e.user_reaction # None
              THEN Put(e.reactions, e.user_reaction,
                       Max0(Count(e.reactions, e.user_reaction) - 1))
              ELSE e.reactions
        c2 == Put(c1, k, Count(c1, k) + 1)
    IN  [e EXCEPT !.user_reaction = k, !.reactions = c2]

\* The optimistic update of handleReaction / handleQuestionReaction /
\* handleCommentReaction applied to one entity.
Toggle(e, k) ==
    LET isRemoving == e.user_reaction = k
        newReaction == IF isRemoving THEN None ELSE k
        c1 == IF e.user_reaction # None
              THEN Put(e.reactions, e.user_reaction,
                       Max0(Count(e.reactions, e.user_reaction) - 1))
              ELSE e.reactions
        c2 == IF ~isRemoving THEN Put(c1, k, Count(c1, k) + 1) ELSE c1
    IN  [e EXCEPT !.user_reaction = newReaction, !.reactions = c2]

\* ------------------------------------------------------- list operations
\* prev.map(x => x.id === id ? f(x) : x)
MapId(list, id, F(_)) ==
    [i \in 1..Len(list) |-> IF list[i].id = id THEN F(list[i]) ELSE list[i]]

\* prev.filter(x => x.id !== id)
FilterOutId(list, id) == SelectSeq(list, LAMBDA x : x.id # id)

HasId(list, id) == \E i \in 1..Len(list) : list[i].id = id

\* list.find(x => x.id === id), for an id the list holds
Find(list, id) == list[CHOOSE i \in 1..Len(list) : list[i].id = id]

\* the entry of id as a sequence: <<entry>> or <<>> when the list has none
EntryOf(list, id) == SelectSeq(list, LAMBDA x : x.id = id)


\* ------------------------------------------------------------------- state
VARIABLES
    srvQ,               \* server: the questions, by id
    srvC,               \* server: the comments, by id
    net,                \* requests in flight, with the server's answer once given
    nextSeq,            \* number given to the next request
    applied,            \* number of the list / load request applied last
    view,               \* the component under study ("feed", "thread", ...); for App, its view state
    user,               \* the user prop (username, or None)
    timers,             \* active setInterval timers, each with the user its closure holds
    questions,          \* ForumFeed: useState<Question[]>
    editingQuestionId,  \* ForumFeed
    editContent,        \* ForumFeed
    editTags,           \* ForumFeed
    savingEdit,         \* ForumFeed
    question,           \* QuestionThread: useState<Question | null>, <<>> for null
    comments,           \* QuestionThread: useState<Comment[]>
    loading,            \* QuestionThread
    editingQuestion,    \* QuestionThread
    editQuestionContent,
    editQuestionTags,
    savingQuestion,
    editingCommentId,   \* QuestionThread
    editCommentContent,
    savingComment,
    ev,                 \* what the last handler step did (observed, for the properties)
    tgEnt,              \* toggle specification: the entity being toggled
    tgHist,             \* toggle specification: the toggles applied, with the entity before each
    reqLimit,           \* number of the last request the run's user and timers may start
    inputContent,       \* ForumFeed: the new-question form
    inputTags,          \* ForumFeed
    feedLoading,        \* ForumFeed: loading
    commentInput,       \* QuestionThread: input
    posting,            \* QuestionThread
    messages,           \* AIChatWindow / LecturerInsightBoard: the transcript
    input,              \* AIChatWindow / LecturerInsightBoard
    chatLoading,        \* AIChatWindow / LecturerInsightBoard: loading
    srvHist,            \* server: the stored history of each session key
    username,           \* LoginModal
    loginLoading,       \* LoginModal: loading
    error,              \* LoginModal
    role,               \* App: useState<Role>
    selectedQuestionId, \* ForumFeed: the open thread, NoId for null
    intervals           \* App: the active setInterval timers of the mounted components

srvVars == <<srvQ, srvC>>
feedEdit == <<editingQuestionId, editContent, editTags, savingEdit>>
feedVars == <<questions, editingQuestionId, editContent, editTags, savingEdit>>
threadQEdit == <<editingQuestion, editQuestionContent, editQuestionTags, savingQuestion>>
threadCEdit == <<editingCommentId, editCommentContent, savingComment>>
threadVars == <<question, comments, loading, editingQuestion, editQuestionContent,
                editQuestionTags, savingQuestion, editingCommentId,
                editCommentContent, savingComment>>
propVars == <<view, user, timers>>
tgVars == <<tgEnt, tgHist, reqLimit>>
appVars == <<role, selectedQuestionId, intervals>>
feedForm == <<inputContent, inputTags, feedLoading>>
threadForm == <<commentInput, posting>>
chatVars == <<messages, input, chatLoading>>
loginVars == <<username, loginLoading, error>>
formVars == <<inputContent, inputTags, feedLoading, commentInput, posting,
              messages, input, chatLoading, srvHist, username, loginLoading, error>>
replica == <<questions, question, comments>>
vars == <<srvQ, srvC, net, nextSeq, applied, view, user, timers,
          questions, editingQuestionId, editContent, editTags, savingEdit,
          question, comments, loading, editingQuestion, editQuestionContent,
          editQuestionTags, savingQuestion, editingCommentId,
          editCommentContent, savingComment, ev, tgEnt, tgHist, reqLimit,
          inputContent, inputTags, feedLoading, commentInput, posting,
          messages, input, chatLoading, srvHist, username, loginLoading, error,
          role, selectedQuestionId, intervals>>

\* --------------------------------------------------------------- the server
\* (not in the frontend sources: modelled from section 6 of the design document)
NoReact == [u \in Users |-> None]

CommentCount(qid) ==
    Cardinality({c \in CIds : srvC[c].present /\ srvC[c].question_id = qid})

\* the count map the server derives: one entry per kind somebody holds
CountsOf(react) ==
    [k \in {x \in Kinds : \E u \in Users : react[u] = x} |->
        Cardinality({u \in Users : react[u] = k})]

\* the Question object the server returns for a viewer, from its stored row
QViewOf(q, id, viewer) ==
    [id |-> id,
     author |-> q.author,
     content |-> q.content,
     tags |-> q.tags,
     resolved |-> q.resolved,
     reactions |-> CountsOf(q.react),
     user_reaction |-> IF viewer \in Users THEN q.react[viewer] ELSE None,
     comment_count |-> CommentCount(id)]

QView(id, viewer) == QViewOf(srvQ[id], id, viewer)

RECURSIVE QListOf(_, _)
QListOf(ids, viewer) ==
    IF ids = {} THEN <<>>
    ELSE LET lo == CHOOSE i \in ids : \A j \in ids : i <= j
         IN  <<QView(lo, viewer)>> \o QListOf(ids \ {lo}, viewer)

\* GET /questions?username=
QList(viewer) == QListOf({i \in QIds : srvQ[i].present}, viewer)

\* the Comment object the server returns for a viewer, from its stored row
CViewOf(c, id, viewer) ==
    [id |-> id,
     question_id |-> c.question_id,
     author |-> c.author,
     content |-> c.content,
     created_at |-> c.created_at,
     reactions |-> CountsOf(c.react),
     user_reaction |-> IF viewer \in Users THEN c.react[viewer] ELSE None]

RECURSIVE CListOf(_, _)
CListOf(ids, viewer) ==
    IF ids = {} THEN <<>>
    ELSE LET lo == CHOOSE i \in ids : \A j \in ids : i <= j
         IN  <<CViewOf(srvC[lo], lo, viewer)>> \o CListOf(ids \ {lo}, viewer)

\* GET /questions/{id}/comments?username=
CList(qid, viewer) ==
    CListOf({i \in CIds : srvC[i].present /\ srvC[i].question_id = qid}, viewer)

\* the server's own toggle of one user's reaction
SrvToggle(react, u, k) ==
    [react EXCEPT ![u] = IF react[u] = k THEN None ELSE k]

\* ---------------------------------------------------------------- requests
NoArg == [kind |-> None, resolved |-> FALSE, content |-> <<>>, tags |-> <<>>,
          silent |-> FALSE]

\* the questionId prop of QuestionThread (Markdown.tsx lines 126-130):
\* ForumFeed's selectedQuestionId in App (ForumFeed.tsx lines 247-255), ThreadQ
\* for the component on its own
ThreadId == IF selectedQuestionId # NoId THEN selectedQuestionId ELSE ThreadQ

\* a request in flight.  src is the component whose continuation waits for it
\* and qid the questionId in the closure of a thread's handler;
\* st / data are the answer; st2 / data2 the answer of the second fetch of load
Msg(n, src, op, id, u, arg, pre) ==
    [seq |-> n, src |-> src, op |-> op, id |-> id, user |-> u, arg |-> arg,
     qid |-> IF src \in {"thread", "post"} THEN ThreadId ELSE NoId,
     st |-> "sent", data |-> <<>>,
     st2 |-> IF op = "load" THEN "sent" ELSE "na", data2 |-> <<>>,
     pre |-> pre, over |-> FALSE]

\* the observation of a handler step: which handler, for which id, with which
\* outcome and alert, whether it started a request and whether it changed the replica
Ev(op, phase, id, outcome, alert, pre, data, n) ==
    [op |-> op, phase |-> phase, id |-> id, outcome |-> outcome, alert |-> alert,
     pre |-> pre, data |-> data, seq |-> n,
     sent |-> nextSeq' # nextSeq,
     changed |-> replica' # replica]

\* ForumFeed is rendered by App (App.tsx lines 40-42, 122): a user is logged
\* in, view is forum
FeedMountedIn(u, v) == u # None /\ v = "forum"

\* QuestionThread is rendered by ForumFeed (ForumFeed.tsx lines 247-255)
ThreadMountedIn(u, v, sel) == FeedMountedIn(u, v) /\ sel # NoId

\* the list of ForumFeed is on screen: the component on its own, or in App
\* with no thread open
FeedShown == view = "feed" \/ (FeedMountedIn(user, view) /\ selectedQuestionId = NoId)

\* the new-question form can be opened: the button that opens it is rendered
\* for students (ForumFeed.tsx line 293)
FormShown == FeedShown /\ role = "student"

\* a thread is on screen: the component on its own, or in App
ThreadShown == view = "thread" \/ ThreadMountedIn(user, view, selectedQuestionId)

\* the run may start another request
CanSend ==
    /\ nextSeq <= reqLimit
    /\ Cardinality(net) < MaxInFlight

\* fetchQuestions() called from a continuation: the closure's user
FollowList(m) == Msg(nextSeq, "feed", "list", NoId, m.user, NoArg, <<>>)

\* load() called from a continuation (not silent)
FollowLoad(m) ==
    [Msg(nextSeq, "thread", "load", m.qid, m.user, NoArg, <<>>) EXCEPT !.qid = m.qid]

Answer(m, st, data) == (net \ {m}) \cup {[m EXCEPT !.st = st, !.data = data]}
Answer2(m, st, data) == (net \ {m}) \cup {[m EXCEPT !.st2 = st, !.data2 = data]}

\* the server answers a request on a question (section 6)
ServerHandle(m) ==
    /\ m \in net
    /\ m.st = "sent"
    /\ m.op \in {"list", "load", "react", "resolve", "edit", "delete"}
    /\ LET q == srvQ[m.id]
           mine == q.present /\ q.author = m.user
       IN  CASE m.op = "list" ->
                  /\ net' = Answer(m, "ok", QList(m.user))
                  /\ UNCHANGED srvQ
             [] m.op = "load" ->
                  /\ net' = IF q.present
                            THEN Answer(m, "ok", <<QView(m.id, m.user)>>)
                            ELSE Answer(m, "rej", <<>>)
                  /\ UNCHANGED srvQ
             [] m.op = "react" ->
                  IF q.present /\ m.user \in Users
                  THEN /\ srvQ' = [srvQ EXCEPT ![m.id].react =
                                       SrvToggle(q.react, m.user, m.arg.kind)]
                       /\ net' = Answer(m, "ok", <<>>)
                  ELSE /\ net' = Answer(m, "rej", <<>>)
                       /\ UNCHANGED srvQ
             [] m.op = "resolve" ->
                  IF mine
                  THEN LET q2 == [q EXCEPT !.resolved = m.arg.resolved]
                       IN  /\ srvQ' = [srvQ EXCEPT ![m.id] = q2]
                           /\ net' = Answer(m, "ok", <<QViewOf(q2, m.id, m.user)>>)
                  ELSE /\ net' = Answer(m, "rej", <<>>)
                       /\ UNCHANGED srvQ
             [] m.op = "edit" ->
                  IF mine
                  THEN LET q2 == [q EXCEPT !.content = m.arg.content,
                                           !.tags = m.arg.tags]
                       IN  /\ srvQ' = [srvQ EXCEPT ![m.id] = q2]
                           /\ net' = Answer(m, "ok", <<QViewOf(q2, m.id, m.user)>>)
                  ELSE /\ net' = Answer(m, "rej", <<>>)
                       /\ UNCHANGED srvQ
             [] m.op = "delete" ->
                  IF mine
                  THEN /\ srvQ' = [srvQ EXCEPT ![m.id].present = FALSE]
                       /\ net' = Answer(m, "ok", <<>>)
                  ELSE /\ net' = Answer(m, "rej", <<>>)
                       /\ UNCHANGED srvQ
    /\ UNCHANGED <<srvC, nextSeq, applied, propVars, feedVars, threadVars,
                   ev, tgVars, appVars, formVars>>

\* the server answers a request on comments (section 6, mirrored endpoints)
ServerHandleComment(m) ==
    /\ m \in net
    /\ \/ m.op = "load" /\ m.st2 = "sent"
       \/ m.op \in {"creact", "cedit", "cdelete"} /\ m.st = "sent"
    /\ LET c == srvC[m.id]
           mine == c.present /\ c.author = m.user
       IN  CASE m.op = "load" ->
                  /\ net' = Answer2(m, "ok", CList(m.id, m.user))
                  /\ UNCHANGED srvC
             [] m.op = "creact" ->
                  IF c.present /\ m.user \in Users
                  THEN /\ srvC' = [srvC EXCEPT ![m.id].react =
                                       SrvToggle(c.react, m.user, m.arg.kind)]
                       /\ net' = Answer(m, "ok", <<>>)
                  ELSE /\ net' = Answer(m, "rej", <<>>)
                       /\ UNCHANGED srvC
             [] m.op = "cedit" ->
                  IF mine
                  THEN LET c2 == [c EXCEPT !.content = m.arg.content]
                       IN  /\ srvC' = [srvC EXCEPT ![m.id] = c2]
                           /\ net' = Answer(m, "ok", <<CViewOf(c2, m.id, m.user)>>)
                  ELSE /\ net' = Answer(m, "rej", <<>>)
                       /\ UNCHANGED srvC
             [] m.op = "cdelete" ->
                  IF mine
                  THEN /\ srvC' = [srvC EXCEPT ![m.id].present = FALSE]
                       /\ net' = Answer(m, "ok", <<>>)
                  ELSE /\ net' = Answer(m, "rej", <<>>)
                       /\ UNCHANGED srvC
    /\ UNCHANGED <<srvQ, nextSeq, applied, propVars, feedVars, threadVars,
                   ev, tgVars, appVars, formVars>>

\* the server fails a fetch with a non-2xx status and changes nothing
ServerReject(m) ==
    /\ m \in net
    /\ \/ m.st = "sent" /\ net' = Answer(m, "rej", <<>>)
       \/ m.st2 = "sent" /\ net' = Answer2(m, "rej", <<>>)
    /\ UNCHANGED <<srvVars, nextSeq, applied, propVars, feedVars, threadVars,
                   ev, tgVars, appVars, formVars>>

\* --------------------------------------------------- props of both components
\* the user prop changes: the polling effect is torn down and run again
\* (ForumFeed.tsx lines 59-63, Markdown.tsx lines 167-171): the old interval is
\* cleared, the list / thread is fetched for the new user, a new interval is set.
\* ForumFeed depends on the user object ([user], line 63): a new object with
\* the same username runs the effect again, null after null does not.
\* QuestionThread depends on the username string (lines 149, 171).
SetUser(u) ==
    /\ CanSend
    /\ u \in Users \cup {None}
    /\ IF view = "feed" THEN u # user \/ u # None ELSE u # user
    /\ user' = u
    /\ timers' = {u}
    /\ IF view = "feed"
       THEN /\ net' = net \cup {Msg(nextSeq, "feed", "list", NoId, u, NoArg, <<>>)}
            /\ UNCHANGED loading
       ELSE /\ net' = net \cup {Msg(nextSeq, "thread", "load", ThreadId, u, NoArg, <<>>)}
            /\ loading' = TRUE
    /\ nextSeq' = nextSeq + 1
    /\ UNCHANGED <<srvVars, applied, view, feedVars, question, comments,
                   threadQEdit, threadCEdit, tgVars, appVars, formVars>>
    /\ ev' = Ev("setuser", "call", NoId, None, None, <<>>, <<>>, nextSeq)

\* ------------------------------------------------------------ ForumFeed.tsx
\* const isMyQuestion = user?.username === q.author (line 312)
IsMyQuestion(q) == user # None /\ user = q.author

\* setInterval(fetchQuestions, 10000) fires: fetchQuestions up to its await
PollTick(t) ==
    /\ view = "feed"
    /\ CanSend
    /\ t \in timers
    /\ net' = net \cup {Msg(nextSeq, "feed", "list", NoId, t, NoArg, <<>>)}
    /\ nextSeq' = nextSeq + 1
    /\ UNCHANGED <<srvVars, applied, propVars, feedVars, threadVars, tgVars, appVars, formVars>>
    /\ ev' = Ev("poll", "call", NoId, None, None, <<>>, <<>>, nextSeq)

\* a plausible slip: the login check of handleReaction is missing
HandleReactionNoLogin(id, k) ==
    /\ view = "feed"
    /\ CanSend
    /\ HasId(questions, id)
    /\ questions' = MapId(questions, id, LAMBDA q : Toggle(q, k))
    /\ net' = net \cup {Msg(nextSeq, "feed", "react", id, user,
                            [NoArg EXCEPT !.kind = k], EntryOf(questions, id))}
    /\ nextSeq' = nextSeq + 1
    /\ UNCHANGED <<srvVars, applied, propVars, feedEdit, threadVars, tgVars, appVars, formVars>>
    /\ ev' = Ev("react", "call", id, None, None, EntryOf(questions, id), <<>>, nextSeq)

\* handleReaction (lines 93-133) up to its await; the reaction buttons are
\* rendered for every question of the list (lines 427-483)
HandleReaction(id, k) ==
    /\ FeedShown
    /\ user # None => CanSend
    /\ HasId(questions, id)
    /\ UNCHANGED <<srvVars, applied, propVars, feedEdit, threadVars, tgVars, appVars, formVars>>
    /\ IF user = None
       THEN /\ UNCHANGED <<questions, net, nextSeq>>
            /\ ev' = Ev("react", "call", id, None, "login", <<>>, <<>>, 0)
       ELSE /\ questions' = MapId(questions, id, LAMBDA q : Toggle(q, k))
            /\ net' = net \cup {Msg(nextSeq, "feed", "react", id, user,
                                    [NoArg EXCEPT !.kind = k], EntryOf(questions, id))}
            /\ nextSeq' = nextSeq + 1
            /\ ev' = Ev("react", "call", id, None, None,
                        EntryOf(questions, id), <<>>, nextSeq)

\* deleteQuestion (lines 143-171) up to its await; the button is rendered for
\* the viewer's own questions (line 380), ok is the answer to confirm()
DeleteQuestion(id, ok) ==
    /\ view = "feed"
    /\ CanSend
    /\ HasId(questions, id)
    /\ IsMyQuestion(Find(questions, id))
    /\ UNCHANGED <<srvVars, applied, propVars, feedEdit, threadVars, tgVars, appVars, formVars>>
    /\ IF user = None
       THEN /\ UNCHANGED <<questions, net, nextSeq>>
            /\ ev' = Ev("delete", "call", id, None, None, <<>>, <<>>, 0)
       ELSE IF Find(questions, id).author # user
       THEN /\ UNCHANGED <<questions, net, nextSeq>>
            /\ ev' = Ev("delete", "call", id, None, "notauthor", <<>>, <<>>, 0)
       ELSE IF ~ok
       THEN /\ UNCHANGED <<questions, net, nextSeq>>
            /\ ev' = Ev("delete", "call", id, None, None, <<>>, <<>>, 0)
       ELSE /\ questions' = FilterOutId(questions, id)
            /\ net' = net \cup {Msg(nextSeq, "feed", "delete", id, user, NoArg,
                                    EntryOf(questions, id))}
            /\ nextSeq' = nextSeq + 1
            /\ ev' = Ev("delete", "call", id, None, None,
                        EntryOf(questions, id), <<>>, nextSeq)

\* startEditQuestion (lines 179-184), from the edit button of an own question
\* that is not being edited (lines 364-379)
StartEditQuestion(id) ==
    /\ view = "feed"
    /\ HasId(questions, id)
    /\ IsMyQuestion(Find(questions, id))
    /\ editingQuestionId # id
    /\ editingQuestionId' = id
    /\ editContent' = Find(questions, id).content
    /\ editTags' = JoinTags(Find(questions, id).tags)
    /\ UNCHANGED <<srvVars, net, nextSeq, applied, propVars, questions,
                   savingEdit, threadVars, tgVars, appVars, formVars>>
    /\ ev' = Ev("startedit", "call", id, None, None, <<>>, <<>>, 0)

\* cancelEditQuestion (lines 186-191): the state it sets
CancelEditState ==
    /\ editingQuestionId' = NoId
    /\ editContent' = <<>>
    /\ editTags' = <<>>
    /\ savingEdit' = FALSE

\* the cancel toggle of an own question being edited (lines 364-379), or the
\* form's cancel button, disabled while saving (line 412)
CancelEditQuestion ==
    /\ view = "feed"
    /\ editingQuestionId # NoId
    /\ HasId(questions, editingQuestionId)
    /\ IsMyQuestion(Find(questions, editingQuestionId)) \/ ~savingEdit
    /\ CancelEditState
    /\ UNCHANGED <<srvVars, net, nextSeq, applied, propVars, questions,
                   threadVars, tgVars, appVars, formVars>>
    /\ ev' = Ev("canceledit", "call", NoId, None, None, <<>>, <<>>, 0)

\* typing into the textarea of the edit form (line 401)
TypeEditContent(c) ==
    /\ view = "feed"
    /\ editingQuestionId # NoId
    /\ HasId(questions, editingQuestionId)
    /\ editContent # c
    /\ editContent' = c
    /\ UNCHANGED <<srvVars, net, nextSeq, applied, propVars, questions,
                   editingQuestionId, editTags, savingEdit, threadVars, tgVars, appVars, formVars>>
    /\ ev' = Ev("type", "call", NoId, None, None, <<>>, <<>>, 0)

\* saveEditQuestion (lines 193-219) up to its await; the save button belongs to
\* the form of the question being edited and is disabled while saving (line 415)
SaveEditQuestion(id) ==
    /\ view = "feed"
    /\ CanSend
    /\ HasId(questions, id)
    /\ editingQuestionId = id
    /\ ~savingEdit
    /\ UNCHANGED <<srvVars, applied, propVars, questions, editingQuestionId,
                   editContent, editTags, threadVars, tgVars, appVars, formVars>>
    /\ IF user = None \/ IsBlankText(editContent) \/ savingEdit
       THEN /\ UNCHANGED <<savingEdit, net, nextSeq>>
            /\ ev' = Ev("edit", "call", id, None, None, <<>>, <<>>, 0)
       ELSE /\ savingEdit' = TRUE
            /\ net' = net \cup {Msg(nextSeq, "feed", "edit", id, user,
                                    [NoArg EXCEPT !.content = editContent,
                                                  !.tags = ParseTags(editTags)],
                                    EntryOf(questions, id))}
            /\ nextSeq' = nextSeq + 1
            /\ ev' = Ev("edit", "call", id, None, None,
                        EntryOf(questions, id), <<>>, nextSeq)

\* setResolved (lines 221-245) up to its await, called with !q.resolved from
\* the button of an own question (lines 351-363)
SetResolved(id) ==
    /\ view = "feed"
    /\ CanSend
    /\ HasId(questions, id)
    /\ IsMyQuestion(Find(questions, id))
    /\ UNCHANGED <<srvVars, applied, propVars, feedEdit, threadVars, tgVars, appVars, formVars>>
    /\ LET resolved == ~Find(questions, id).resolved
       IN  IF user = None
           THEN /\ UNCHANGED <<questions, net, nextSeq>>
                /\ ev' = Ev("resolve", "call", id, None, "login", <<>>, <<>>, 0)
           ELSE /\ questions' = MapId(questions, id,
                                      LAMBDA q : [q EXCEPT !.resolved = resolved])
                /\ net' = net \cup {Msg(nextSeq, "feed", "resolve", id, user,
                                        [NoArg EXCEPT !.resolved = resolved],
                                        EntryOf(questions, id))}
                /\ nextSeq' = nextSeq + 1
                /\ ev' = Ev("resolve", "call", id, None, None,
                            EntryOf(questions, id), <<>>, nextSeq)

\* ------------------------------------------- ForumFeed.tsx: continuations
\* a pending resolve request is marked when a list response that disagrees
\* with its optimistic value is applied before its own response
MarkOver(x, list) ==
    IF x.op = "resolve" /\ HasId(list, x.id)
       /\ Find(list, x.id).resolved # x.arg.resolved
    THEN [x EXCEPT !.over = TRUE]
    ELSE x

\* a plausible slip: a list response is merged into the replica, entries the
\* replica already holds being kept
ApplyListKeepLocal(list) ==
    [i \in 1..Len(list) |->
        IF HasId(questions, list[i].id) THEN Find(questions, list[i].id) ELSE list[i]]

\* a plausible slip: setQuestions is given the list the component holds, not
\* the response
ApplyListHeld(list) == questions

\* setQuestions(data) (line 52)
ApplyList(list) == list

\* fetchQuestions (lines 45-57) after its await
ListDone(m, o) ==
    /\ questions' = IF o = "ok" THEN ApplyList(m.data) ELSE questions
    /\ applied' = IF o = "ok" THEN m.seq ELSE applied
    /\ net' = IF o = "ok" THEN {MarkOver(x, m.data) : x \in net \ {m}} ELSE net \ {m}
    /\ UNCHANGED <<nextSeq, feedEdit, threadVars>>
    /\ ev' = Ev("list", "done", NoId, o, None, <<>>,
                IF o = "ok" THEN m.data ELSE <<>>, m.seq)

\* handleReaction after its await: res.ok is not looked at, a rejected fetch
\* calls fetchQuestions() (lines 119-132)
ReactDone(m, o) ==
    /\ IF o = "netfail"
       THEN /\ net' = (net \ {m}) \cup {FollowList(m)}
            /\ nextSeq' = nextSeq + 1
       ELSE /\ net' = net \ {m}
            /\ UNCHANGED nextSeq
    /\ UNCHANGED <<applied, feedVars, threadVars>>
    /\ ev' = Ev("react", "done", m.id, o, None, m.pre, <<>>, m.seq)

\* a plausible slip: a failed delete is reported and the list is not fetched again
DeleteDoneNoRefetch(m, o) ==
    /\ net' = net \ {m}
    /\ UNCHANGED <<nextSeq, applied, feedVars, threadVars>>
    /\ ev' = Ev("delete", "done", m.id, o,
                IF o = "ok" THEN None ELSE "failed", m.pre, <<>>, m.seq)

\* deleteQuestion after its await (lines 162-170)
DeleteDone(m, o) ==
    /\ IF o = "ok"
       THEN /\ net' = net \ {m}
            /\ UNCHANGED nextSeq
       ELSE /\ net' = (net \ {m}) \cup {FollowList(m)}
            /\ nextSeq' = nextSeq + 1
    /\ UNCHANGED <<applied, feedVars, threadVars>>
    /\ ev' = Ev("delete", "done", m.id, o,
                IF o = "ok" THEN None ELSE "failed", m.pre, <<>>, m.seq)

\* a plausible slip: only the edited fields of the response are taken
ReplaceByMerge(list, id, data) ==
    MapId(list, id, LAMBDA q : [q EXCEPT !.content = data.content])

\* a plausible slip: a response for an id the list does not hold is inserted
ReplaceByUpsert(list, id, data) ==
    IF HasId(list, id) THEN MapId(list, id, LAMBDA q : data) ELSE Append(list, data)

\* prev.map(q => (q.id === questionId ? data : q)) (lines 211, 239;
\* Markdown.tsx line 271)
ReplaceBy(list, id, data) == MapId(list, id, LAMBDA q : data)

\* saveEditQuestion after its await (lines 209-218)
EditDone(m, o) ==
    /\ IF o = "ok"
       THEN /\ questions' = ReplaceBy(questions, m.id, m.data[1])
            /\ CancelEditState
       ELSE /\ savingEdit' = FALSE
            /\ UNCHANGED <<questions, editingQuestionId, editContent, editTags>>
    /\ net' = net \ {m}
    /\ UNCHANGED <<nextSeq, applied, threadVars>>
    /\ ev' = Ev("edit", "done", m.id, o,
                IF o = "ok" THEN None ELSE "failed", m.pre,
                IF o = "ok" THEN m.data ELSE <<>>, m.seq)

\* setResolved after its await (lines 237-244); the observation keeps whether
\* a list response overrode the optimistic value meanwhile
ResolveDone(m, o) ==
    /\ IF o = "ok"
       THEN /\ questions' = ReplaceBy(questions, m.id, m.data[1])
            /\ net' = net \ {m}
            /\ UNCHANGED nextSeq
       ELSE /\ net' = (net \ {m}) \cup {FollowList(m)}
            /\ nextSeq' = nextSeq + 1
            /\ UNCHANGED questions
    /\ UNCHANGED <<applied, feedEdit, threadVars>>
    /\ ev' = Ev("resolve", IF m.over THEN "done_over" ELSE "done", m.id, o,
                IF o = "ok" THEN None ELSE "failed", m.pre,
                IF o = "ok" THEN m.data ELSE <<>>, m.seq)

\* ------------------------------------------- Markdown.tsx: QuestionThread
\* const isMine = user?.username === c.author (line 514)
IsMine(c) == user # None /\ user = c.author

\* setInterval(() => void load({ silent: true }), 8000) fires: load up to its await
ThreadPollTick(t) ==
    /\ view = "thread"
    /\ CanSend
    /\ t \in timers
    /\ net' = net \cup {Msg(nextSeq, "thread", "load", ThreadId, t,
                            [NoArg EXCEPT !.silent = TRUE], <<>>)}
    /\ nextSeq' = nextSeq + 1
    /\ UNCHANGED <<srvVars, applied, propVars, feedVars, threadVars, tgVars, appVars, formVars>>
    /\ ev' = Ev("poll", "call", NoId, None, None, <<>>, <<>>, nextSeq)

\* the optimistic update of handleQuestionReaction (lines 314-328)
ToggleQuestion(k) ==
    IF question = <<>> THEN question ELSE <<Toggle(question[1], k)>>

\* The chip of a reaction kind is rendered when the kind has a count or is the
\* viewer's own reaction (lines 457-460).
ChipShown(e, k) == Count(e.reactions, k) > 0 \/ e.user_reaction = k

\* handleQuestionReaction (lines 307-343) up to its await; the buttons are
\* rendered when the question is loaded (lines 456-501). While the question is
\* edited the picker is closed (line 204) and its '+' is disabled (line 479),
\* so only the chips (lines 463-465, not disabled) can be clicked.
HandleQuestionReaction(k) ==
    /\ view = "thread"
    /\ user # None => CanSend
    /\ question # <<>>
    /\ editingQuestion => ChipShown(question[1], k)
    /\ UNCHANGED <<srvVars, applied, propVars, feedVars, comments, loading,
                   threadQEdit, threadCEdit, tgVars, appVars, formVars>>
    /\ IF user = None
       THEN /\ UNCHANGED <<question, net, nextSeq>>
            /\ ev' = Ev("qreact", "call", ThreadId, None, "login", <<>>, <<>>, 0)
       ELSE /\ question' = ToggleQuestion(k)
            /\ net' = net \cup {Msg(nextSeq, "thread", "react", ThreadId, user,
                                    [NoArg EXCEPT !.kind = k], question)}
            /\ nextSeq' = nextSeq + 1
            /\ ev' = Ev("qreact", "call", ThreadId, None, None, question, <<>>, nextSeq)

\* handleCommentReaction (lines 349-387) up to its await; the buttons of a
\* comment being edited are disabled (lines 570, 584)
HandleCommentReaction(cid, k) ==
    /\ view = "thread"
    /\ user # None => CanSend
    /\ HasId(comments, cid)
    /\ editingCommentId # cid
    /\ UNCHANGED <<srvVars, applied, propVars, feedVars, question, loading,
                   threadQEdit, threadCEdit, tgVars, appVars, formVars>>
    /\ IF user = None
       THEN /\ UNCHANGED <<comments, net, nextSeq>>
            /\ ev' = Ev("creact", "call", cid, None, "login", <<>>, <<>>, 0)
       ELSE /\ comments' = MapId(comments, cid, LAMBDA c : Toggle(c, k))
            /\ net' = net \cup {Msg(nextSeq, "thread", "creact", cid, user,
                                    [NoArg EXCEPT !.kind = k], EntryOf(comments, cid))}
            /\ nextSeq' = nextSeq + 1
            /\ ev' = Ev("creact", "call", cid, None, None,
                        EntryOf(comments, cid), <<>>, nextSeq)

\* startEditQuestion of the thread (lines 199-205), from the edit button shown
\* to the author while the question is not being edited (lines 448-452)
ThreadStartEditQuestion ==
    /\ view = "thread"
    /\ question # <<>>
    /\ ~editingQuestion
    /\ IsMyQuestion(question[1])
    /\ editingQuestion' = TRUE
    /\ editQuestionContent' = question[1].content
    /\ editQuestionTags' = JoinTags(question[1].tags)
    /\ UNCHANGED <<srvVars, net, nextSeq, applied, propVars, feedVars, question,
                   comments, loading, savingQuestion, threadCEdit, tgVars, appVars, formVars>>
    /\ ev' = Ev("qstartedit", "call", ThreadId, None, None, <<>>, <<>>, 0)

\* cancelEditQuestion of the thread (lines 207-212): the state it sets
ThreadCancelEditState ==
    /\ editingQuestion' = FALSE
    /\ editQuestionContent' = <<>>
    /\ editQuestionTags' = <<>>
    /\ savingQuestion' = FALSE

\* the form's cancel button, disabled while saving (line 436)
ThreadCancelEditQuestion ==
    /\ view = "thread"
    /\ question # <<>>
    /\ editingQuestion
    /\ ~savingQuestion
    /\ ThreadCancelEditState
    /\ UNCHANGED <<srvVars, net, nextSeq, applied, propVars, feedVars, question,
                   comments, loading, threadCEdit, tgVars, appVars, formVars>>
    /\ ev' = Ev("qcanceledit", "call", ThreadId, None, None, <<>>, <<>>, 0)

\* typing into the textarea of the question form (line 425)
ThreadTypeQuestion(c) ==
    /\ view = "thread"
    /\ question # <<>>
    /\ editingQuestion
    /\ editQuestionContent # c
    /\ editQuestionContent' = c
    /\ UNCHANGED <<srvVars, net, nextSeq, applied, propVars, feedVars, question,
                   comments, loading, editingQuestion, editQuestionTags,
                   savingQuestion, threadCEdit, tgVars, appVars, formVars>>
    /\ ev' = Ev("type", "call", NoId, None, None, <<>>, <<>>, 0)

\* typing into the tags input of the question form (lines 427-432)
ThreadTypeTags(t) ==
    /\ view = "thread"
    /\ question # <<>>
    /\ editingQuestion
    /\ editQuestionTags # t
    /\ editQuestionTags' = t
    /\ UNCHANGED <<srvVars, net, nextSeq, applied, propVars, feedVars, question,
                   comments, loading, editingQuestion, editQuestionContent,
                   savingQuestion, threadCEdit, tgVars, appVars, formVars>>
    /\ ev' = Ev("type", "call", NoId, None, None, <<>>, <<>>, 0)

\* saveEditQuestion of the thread (lines 214-241) up to its await; the save
\* button is disabled while saving (line 439)
ThreadSaveEditQuestion ==
    /\ view = "thread"
    /\ CanSend
    /\ question # <<>>
    /\ editingQuestion
    /\ ~savingQuestion
    /\ UNCHANGED <<srvVars, applied, propVars, feedVars, question, comments,
                   loading, editingQuestion, editQuestionContent,
                   editQuestionTags, threadCEdit, tgVars, appVars, formVars>>
    /\ IF user = None \/ question = <<>> \/ IsBlankText(editQuestionContent)
          \/ savingQuestion
       THEN /\ UNCHANGED <<savingQuestion, net, nextSeq>>
            /\ ev' = Ev("qedit", "call", ThreadId, None, None, <<>>, <<>>, 0)
       ELSE /\ savingQuestion' = TRUE
            /\ net' = net \cup {Msg(nextSeq, "thread", "edit", ThreadId, user,
                                    [NoArg EXCEPT !.content = editQuestionContent,
                                                  !.tags = ParseTags(editQuestionTags)],
                                    question)}
            /\ nextSeq' = nextSeq + 1
            /\ ev' = Ev("qedit", "call", ThreadId, None, None, question, <<>>, nextSeq)

\* startEditComment (lines 243-247), from the edit button of an own comment
\* that is not being edited (lines 523-529)
StartEditComment(cid) ==
    /\ view = "thread"
    /\ HasId(comments, cid)
    /\ IsMine(Find(comments, cid))
    /\ editingCommentId # cid
    /\ editingCommentId' = cid
    /\ editCommentContent' = Find(comments, cid).content
    /\ UNCHANGED <<srvVars, net, nextSeq, applied, propVars, feedVars, question,
                   comments, loading, threadQEdit, savingComment, tgVars, appVars, formVars>>
    /\ ev' = Ev("cstartedit", "call", cid, None, None, <<>>, <<>>, 0)

\* cancelEditComment (lines 249-253): the state it sets
CancelEditCommentState ==
    /\ editingCommentId' = NoId
    /\ editCommentContent' = <<>>
    /\ savingComment' = FALSE

\* the form's cancel button, disabled while saving (line 547)
CancelEditComment ==
    /\ view = "thread"
    /\ editingCommentId # NoId
    /\ HasId(comments, editingCommentId)
    /\ ~savingComment
    /\ CancelEditCommentState
    /\ UNCHANGED <<srvVars, net, nextSeq, applied, propVars, feedVars, question,
                   comments, loading, threadQEdit, tgVars, appVars, formVars>>
    /\ ev' = Ev("ccanceledit", "call", NoId, None, None, <<>>, <<>>, 0)

\* typing into the textarea of the comment form (line 542)
TypeEditComment(c) ==
    /\ view = "thread"
    /\ editingCommentId # NoId
    /\ HasId(comments, editingCommentId)
    /\ editCommentContent # c
    /\ editCommentContent' = c
    /\ UNCHANGED <<srvVars, net, nextSeq, applied, propVars, feedVars, question,
                   comments, loading, threadQEdit, editingCommentId,
                   savingComment, tgVars, appVars, formVars>>
    /\ ev' = Ev("type", "call", NoId, None, None, <<>>, <<>>, 0)

\* saveEditComment (lines 255-279) up to its await; the save button belongs to
\* the form of the comment being edited and is disabled while saving (line 550)
SaveEditComment(cid) ==
    /\ view = "thread"
    /\ CanSend
    /\ HasId(comments, cid)
    /\ editingCommentId = cid
    /\ ~savingComment
    /\ UNCHANGED <<srvVars, applied, propVars, feedVars, question, comments,
                   loading, threadQEdit, editingCommentId, editCommentContent,
                   tgVars, appVars, formVars>>
    /\ IF user = None \/ IsBlankText(editCommentContent) \/ savingComment
       THEN /\ UNCHANGED <<savingComment, net, nextSeq>>
            /\ ev' = Ev("cedit", "call", cid, None, None, <<>>, <<>>, 0)
       ELSE /\ savingComment' = TRUE
            /\ net' = net \cup {Msg(nextSeq, "thread", "cedit", cid, user,
                                    [NoArg EXCEPT !.content = editCommentContent],
                                    EntryOf(comments, cid))}
            /\ nextSeq' = nextSeq + 1
            /\ ev' = Ev("cedit", "call", cid, None, None,
                        EntryOf(comments, cid), <<>>, nextSeq)

\* deleteComment (lines 281-298) up to its await; the button is rendered for
\* own comments and disabled while the comment is edited (lines 523-532);
\* ok is the answer to confirm()
DeleteComment(cid, ok) ==
    /\ ThreadShown
    /\ CanSend
    /\ HasId(comments, cid)
    /\ IsMine(Find(comments, cid))
    /\ editingCommentId # cid
    /\ UNCHANGED <<srvVars, applied, propVars, feedVars, question, loading,
                   threadQEdit, threadCEdit, tgVars, appVars, formVars>>
    /\ IF user = None \/ ~ok
       THEN /\ UNCHANGED <<comments, net, nextSeq>>
            /\ ev' = Ev("cdelete", "call", cid, None, None, <<>>, <<>>, 0)
       ELSE /\ comments' = FilterOutId(comments, cid)
            /\ net' = net \cup {Msg(nextSeq, "thread", "cdelete", cid, user, NoArg,
                                    EntryOf(comments, cid))}
            /\ nextSeq' = nextSeq + 1
            /\ ev' = Ev("cdelete", "call", cid, None, None,
                        EntryOf(comments, cid), <<>>, nextSeq)

\* ---------------------------------- Markdown.tsx: QuestionThread continuations
\* setComments(await cRes.json()) (line 159)
ApplyComments(list) == list

\* load (lines 151-165) after Promise.all: both responses are ok, the body of
\* the first has been read and the body of the second is awaited
LoadFirstBody(m, o) == o = "ok" /\ m.st = "ok" /\ m.st2 = "ok"

\* load (lines 151-165) after its awaits.  Each response is applied when it is
\* ok.  When both are, setQuestion runs and load waits again for the body of
\* the comments (line 159): the request stays, marked "read", and setComments
\* and the finally block run in a later step, or the catch and the finally
\* block when reading that body fails
LoadDone(m, o) ==
    /\ question' = IF o # "netfail" /\ m.st = "ok" THEN <<m.data[1]>> ELSE question
    /\ comments' = IF o # "netfail" /\ m.st2 = "ok" /\ ~LoadFirstBody(m, o)
                   THEN ApplyComments(m.data2) ELSE comments
    /\ loading' = IF m.arg.silent \/ LoadFirstBody(m, o) THEN loading ELSE FALSE
    /\ applied' = IF o = "read" \/ (o # "netfail" /\ "ok" \in {m.st, m.st2})
                  THEN m.seq ELSE applied
    /\ net' = IF LoadFirstBody(m, o)
              THEN (net \ {m}) \cup {[m EXCEPT !.st = "read"]}
              ELSE net \ {m}
    /\ UNCHANGED <<nextSeq, feedVars, threadQEdit, threadCEdit>>
    /\ ev' = Ev("load", IF LoadFirstBody(m, o) THEN "body" ELSE "done", m.id,
                IF o \in {"ok", "read"} /\ m.st2 = "ok" THEN "ok"
                ELSE IF o = "netfail" THEN "netfail" ELSE "rej",
                None, <<>>, <<>>, m.seq)

\* handleQuestionReaction / handleCommentReaction after the await: res.ok is not
\* looked at, a rejected fetch calls load() (lines 339-342, 383-386)
ThreadReactDone(m, o) ==
    /\ IF o = "netfail"
       THEN /\ net' = (net \ {m}) \cup {FollowLoad(m)}
            /\ nextSeq' = nextSeq + 1
            /\ loading' = TRUE
       ELSE /\ net' = net \ {m}
            /\ UNCHANGED <<nextSeq, loading>>
    /\ UNCHANGED <<applied, feedVars, question, comments, threadQEdit, threadCEdit>>
    /\ ev' = Ev(IF m.op = "react" THEN "qreact" ELSE "creact", "done", m.id, o,
                None, m.pre, <<>>, m.seq)

\* saveEditQuestion of the thread after its await (lines 231-240)
ThreadEditDone(m, o) ==
    /\ IF o = "ok"
       THEN /\ question' = <<m.data[1]>>
            /\ ThreadCancelEditState
       ELSE /\ savingQuestion' = FALSE
            /\ UNCHANGED <<question, editingQuestion, editQuestionContent,
                           editQuestionTags>>
    /\ net' = net \ {m}
    /\ UNCHANGED <<nextSeq, applied, feedVars, comments, loading, threadCEdit>>
    /\ ev' = Ev("qedit", "done", m.id, o,
                IF o = "ok" THEN None ELSE "failed", m.pre,
                IF o = "ok" THEN m.data ELSE <<>>, m.seq)

\* saveEditComment after its await (lines 269-278)
CommentEditDone(m, o) ==
    /\ IF o = "ok"
       THEN /\ comments' = ReplaceBy(comments, m.id, m.data[1])
            /\ CancelEditCommentState
       ELSE /\ savingComment' = FALSE
            /\ UNCHANGED <<comments, editingCommentId, editCommentContent>>
    /\ net' = net \ {m}
    /\ UNCHANGED <<nextSeq, applied, feedVars, question, loading, threadQEdit>>
    /\ ev' = Ev("cedit", "done", m.id, o,
                IF o = "ok" THEN None ELSE "failed", m.pre,
                IF o = "ok" THEN m.data ELSE <<>>, m.seq)

\* deleteComment after its await (lines 290-297): load() in both branches
CommentDeleteDone(m, o) ==
    /\ net' = (net \ {m}) \cup {FollowLoad(m)}
    /\ nextSeq' = nextSeq + 1
    /\ loading' = TRUE
    /\ UNCHANGED <<applied, feedVars, question, comments, threadQEdit, threadCEdit>>
    /\ ev' = Ev("cdelete", "done", m.id, o,
                IF o = "ok" THEN None ELSE "failed", m.pre, <<>>, m.seq)

\* --------------------------------------------------------------- delivery
Done(m, o) ==
    CASE m.src = "feed" /\ m.op = "list" -> ListDone(m, o)
      [] m.src = "feed" /\ m.op = "react" -> ReactDone(m, o)
      [] m.src = "feed" /\ m.op = "delete" -> DeleteDone(m, o)
      [] m.src = "feed" /\ m.op = "edit" -> EditDone(m, o)
      [] m.src = "feed" /\ m.op = "resolve" -> ResolveDone(m, o)
      [] m.src = "thread" /\ m.op = "load" -> LoadDone(m, o)
      [] m.src = "thread" /\ m.op \in {"react", "creact"} -> ThreadReactDone(m, o)
      [] m.src = "thread" /\ m.op = "edit" -> ThreadEditDone(m, o)
      [] m.src = "thread" /\ m.op = "cedit" -> CommentEditDone(m, o)
      [] m.src = "thread" /\ m.op = "cdelete" -> CommentDeleteDone(m, o)
      [] OTHER -> FALSE

\* the response of a request arrives: fetch() resolves, 2xx or not (for load,
\* Promise.all resolves once both fetches have), or the body that load awaits
\* second has been read
Deliver(m) ==
    /\ m \in net
    /\ m.st \in {"ok", "rej", "read"}
    /\ m.st2 \in {"ok", "rej", "na"}
    /\ UNCHANGED <<srvVars, propVars, tgVars, appVars, formVars>>
    /\ Done(m, m.st)

\* the request or its response is lost: fetch() rejects
NetFail(m) ==
    /\ m \in net
    /\ UNCHANGED <<srvVars, propVars, tgVars, appVars, formVars>>
    /\ Done(m, "netfail")

\* ------------------------------------------------------------ specification
Question1 ==
    [present |-> TRUE, author |-> "alice", content |-> TextA, tags |-> TagsJ,
     resolved |-> FALSE, react |-> [NoReact EXCEPT !["bob"] = "like"]]
Question2 ==
    [present |-> TRUE, author |-> "bob", content |-> TextA, tags |-> NoTags,
     resolved |-> FALSE, react |-> NoReact]
Comment1 ==
    [present |-> TRUE, question_id |-> ThreadQ, author |-> "alice",
     content |-> TextA, created_at |-> "t1", react |-> NoReact]
Comment2 ==
    [present |-> TRUE, question_id |-> ThreadQ, author |-> "bob",
     content |-> TextA, created_at |-> "t2",
     react |-> [NoReact EXCEPT !["alice"] = "like"]]

NoEntity == [user_reaction |-> None, reactions |-> <<>>]

\* ------------------------------------------------------------ session keys
\* String(n) of a non-negative integer, as template literals do
RECURSIVE Digits(_)
Digits(n) ==
    LET d == <<"0", "1", "2", "3", "4", "5", "6", "7", "8", "9">>[(n % 10) + 1]
    IN  IF n < 10 THEN <<d>> ELSE Digits(n \div 10) \o <<d>>

\* user.id of the users of the run
UserId(u) == IF u = "alice" THEN 1 ELSE 12

\* `student-${user.id}` (AIChatWindow.tsx line 20)
StudentKey(id) == <<"s", "t", "u", "d", "e", "n", "t", "-">> \o Digits(id)

\* a plausible slip: the insight board uses the key of the user's chat window
LecturerKeyAsStudent(id) == StudentKey(id)

\* `lecturer-${user.id}` (App.tsx line 138)
LecturerKey(id) == <<"l", "e", "c", "t", "u", "r", "e", "r", "-">> \o Digits(id)

\* the key of the session a view opens for a user
SessionKey(v, u) ==
    IF v = "insight" THEN LecturerKey(UserId(u)) ELSE StudentKey(UserId(u))

SessionKeys == {SessionKey(v, u) : v \in {"chat", "insight"}, u \in Users}

\* GET /api/chat/history?session_id= (AIChatWindow.tsx line 25, App.tsx line 142)
HistoryMsg(n, v, u) ==
    Msg(n, v, "history", NoId, u, [session_id |-> SessionKey(v, u)], <<>>)

\* a component is mounted: its useState defaults (ForumFeed.tsx lines 33-43,
\* Markdown.tsx lines 132-145) and its polling effect run once
MountedWithin(v, q2, c2, lim) ==
    /\ reqLimit = lim
    /\ srvQ = [i \in QIds |-> IF i = 1 THEN Question1 ELSE q2]
    /\ srvC = [i \in CIds |-> IF i = 1 THEN Comment1 ELSE c2]
    /\ view = v
    /\ user \in {"alice", None}
    /\ selectedQuestionId = NoId
    /\ net = IF v = "feed"
             THEN {Msg(1, "feed", "list", NoId, user, NoArg, <<>>)}
             ELSE IF v = "thread"
             THEN {Msg(1, "thread", "load", ThreadQ, user, NoArg, <<>>)}
             ELSE IF v \in {"chat", "insight"} /\ user # None
             THEN {HistoryMsg(1, v, user)}
             ELSE {}
    /\ inputContent = <<>>
    /\ inputTags = <<>>
    /\ feedLoading = FALSE
    /\ commentInput = <<>>
    /\ posting = FALSE
    /\ messages = <<>>
    /\ input = <<>>
    /\ chatLoading = FALSE
    /\ srvHist = [k \in SessionKeys |-> <<>>]
    /\ username = <<>>
    /\ loginLoading = FALSE
    /\ error = None
    /\ role = "student"
    /\ intervals = {}
    /\ nextSeq = IF net = {} THEN 1 ELSE 2
    /\ applied = 0
    /\ timers = {user}
    /\ questions = <<>>
    /\ editingQuestionId = NoId
    /\ editContent = <<>>
    /\ editTags = <<>>
    /\ savingEdit = FALSE
    /\ question = <<>>
    /\ comments = <<>>
    /\ loading = TRUE
    /\ editingQuestion = FALSE
    /\ editQuestionContent = <<>>
    /\ editQuestionTags = <<>>
    /\ savingQuestion = FALSE
    /\ editingCommentId = NoId
    /\ editCommentContent = <<>>
    /\ savingComment = FALSE
    /\ ev = [op |-> "mount", phase |-> "call", id |-> NoId, outcome |-> None,
             alert |-> None, pre |-> <<>>, data |-> <<>>,
             seq |-> IF net = {} THEN 0 ELSE 1,
             sent |-> net # {}, changed |-> FALSE]

\* the requests a run of each component may start
LimitOf(v) ==
    IF v = "feed" THEN MaxReq ELSE IF v = "forum" THEN MaxAppReq ELSE MaxThreadReq

MountedOn(v, q2, c2) == MountedWithin(v, q2, c2, LimitOf(v))

Mounted(v) == MountedOn(v, Question2, Comment2)

\* the forum feed with its server
Init == Mounted("feed") /\ tgEnt = NoEntity /\ tgHist = <<>>

Next ==
    \/ \E m \in net : ServerHandle(m)
    \/ \E m \in net : ServerReject(m)
    \/ \E u \in Users \cup {None} : SetUser(u)
    \/ \E t \in timers : PollTick(t)
    \/ \E id \in QIds, k \in ClickKinds : HandleReaction(id, k)
    \/ \E id \in QIds, ok \in BOOLEAN : DeleteQuestion(id, ok)
    \/ \E id \in QIds : StartEditQuestion(id)
    \/ CancelEditQuestion
    \/ \E c \in TypedContents : TypeEditContent(c)
    \/ \E id \in QIds : SaveEditQuestion(id)
    \/ \E id \in QIds : SetResolved(id)
    \/ \E m \in net : Deliver(m)
    \/ \E m \in net : NetFail(m)

Spec == Init /\ [][Next]_vars

\* the thread of question ThreadQ with its server
InitThread == Mounted("thread") /\ tgEnt = NoEntity /\ tgHist = <<>>

NextThread ==
    \/ \E m \in net : ServerHandle(m)
    \/ \E m \in net : ServerHandleComment(m)
    \/ \E m \in net : ServerReject(m)
    \/ \E u \in Users \cup {None} : SetUser(u)
    \/ \E t \in timers : ThreadPollTick(t)
    \/ \E k \in ClickKinds : HandleQuestionReaction(k)
    \/ \E cid \in CIds, k \in ClickKinds : HandleCommentReaction(cid, k)
    \/ ThreadStartEditQuestion
    \/ ThreadCancelEditQuestion
    \/ \E c \in TypedContents : ThreadTypeQuestion(c)
    \/ \E t \in TypedTags : ThreadTypeTags(t)
    \/ ThreadSaveEditQuestion
    \/ \E cid \in CIds : StartEditComment(cid)
    \/ CancelEditComment
    \/ \E c \in TypedContents : TypeEditComment(c)
    \/ \E cid \in CIds : SaveEditComment(cid)
    \/ \E cid \in CIds, ok \in BOOLEAN : DeleteComment(cid, ok)
    \/ \E m \in net : Deliver(m)
    \/ \E m \in net : NetFail(m)

SpecThread == InitThread /\ [][NextThread]_vars

\* the forum feed, or the thread of question ThreadQ with both comments written
\* by the viewer: 編集 on one own comment is offered while the edit of another
\* is being saved (Markdown.tsx lines 523-529) and enables 削除 on that one
\* (line 530)
InitRemoved ==
    /\ \E v \in {"feed", "thread"} :
          MountedWithin(v, Question2, [Comment2 EXCEPT !.author = "alice"],
                        IF v = "feed" THEN MaxReq ELSE MaxOwnReq)
    /\ tgEnt = NoEntity
    /\ tgHist = <<>>

NextRemoved ==
    \/ Next
    \/ \E m \in net : ServerHandleComment(m)
    \/ \E cid \in CIds : StartEditComment(cid)
    \/ \E c \in TypedContents : TypeEditComment(c)
    \/ \E cid \in CIds : SaveEditComment(cid)
    \/ \E cid \in CIds : DeleteComment(cid, TRUE)

SpecRemoved == InitRemoved /\ [][NextRemoved]_vars

\* the optimistic toggle alone, on every entity a replica can hold
CountMaps == UNION {[D -> 0..MaxCount] : D \in SUBSET Kinds}

Entities ==
    {e \in [user_reaction : Kinds \cup {None}, reactions : CountMaps] :
        e.user_reaction # None => Count(e.reactions, e.user_reaction) >= 1}

InitToggle ==
    /\ Mounted("none")
    /\ tgEnt \in Entities
    /\ tgHist = <<>>

\* one click on a reaction button: the updater of lines 99-117
ToggleStep(k) ==
    /\ Len(tgHist) < MaxToggles
    /\ tgHist' = Append(tgHist, [before |-> tgEnt, kind |-> k])
    /\ tgEnt' = Toggle(tgEnt, k)
    /\ UNCHANGED <<srvVars, net, nextSeq, applied, propVars, feedVars, threadVars, ev,
                   formVars, appVars, reqLimit>>

NextToggle == \E k \in Kinds : ToggleStep(k)

SpecToggle == InitToggle /\ [][NextToggle]_vars

\* ------------------------------------------------------------- properties
\* the last step was the continuation of a request, after its await
EvDone == ev.phase \in {"done", "done_over"}

\* C1: after a reaction, resolve or edit request has failed (network failure or
\* non-2xx response) and its continuation has run, the replica entry of the
\* affected question is the entry as it was before the optimistic change
C1_FailedMutationRestoresEntry ==
    (/\ EvDone
     /\ ev.op \in {"react", "resolve", "edit"}
     /\ ev.outcome \in {"rej", "netfail"})
    => EntryOf(questions, ev.id) = ev.pre

\* C2: after the successful response of an edit or resolve request has been
\* processed, the replica entry of that id, if present, is the returned object
C2_SuccessTakesServerObject ==
    /\ (/\ EvDone
        /\ ev.op \in {"edit", "resolve"}
        /\ ev.outcome = "ok"
        /\ HasId(questions, ev.id))
       => Find(questions, ev.id) = ev.data[1]
    /\ (EvDone /\ ev.op = "qedit" /\ ev.outcome = "ok") => question = ev.data
    /\ (/\ EvDone
        /\ ev.op = "cedit"
        /\ ev.outcome = "ok"
        /\ HasId(comments, ev.id))
       => Find(comments, ev.id) = ev.data[1]

\* C2 witness: a resolve succeeded and the returned object differs from the
\* optimistic guess (the entry before the click with resolved flipped)
C2_Witness ==
    /\ EvDone
    /\ ev.op = "resolve"
    /\ ev.outcome = "ok"
    /\ HasId(questions, ev.id)
    /\ ev.data[1] # [ev.pre[1] EXCEPT !.resolved = ~ev.pre[1].resolved]
    /\ Find(questions, ev.id) = ev.data[1]

\* C3: the response of a list or load request is never applied after the
\* response of a request issued later has been applied
C3_NoStaleApply == [][applied' >= applied]_vars

\* C4: when a successful list response is applied the replica is exactly the
\* fetched list, a pending optimistic resolved value the list disagrees with
\* being overridden; when the resolve request's own successful response
\* arrives after that, the entry takes the object of that response
C4_PollWinsThenResponse ==
    /\ (EvDone /\ ev.op = "list" /\ ev.outcome = "ok") =>
          /\ questions = ev.data
          /\ \A m \in net :
                (/\ m.op = "resolve"
                 /\ HasId(ev.data, m.id)
                 /\ Find(ev.data, m.id).resolved # m.arg.resolved)
                => Find(questions, m.id).resolved # m.arg.resolved
    /\ (/\ ev.op = "resolve"
        /\ ev.phase = "done_over"
        /\ ev.outcome = "ok"
        /\ HasId(questions, ev.id))
       => Find(questions, ev.id) = ev.data[1]

\* C4 witness: a list response overrode a pending resolved=true with false, and
\* the resolve request's own response then set the entry to resolved=true
C4_Witness ==
    /\ ev.op = "resolve"
    /\ ev.phase = "done_over"
    /\ ev.outcome = "ok"
    /\ HasId(questions, ev.id)
    /\ ~ev.pre[1].resolved
    /\ Find(questions, ev.id).resolved

\* the entity after toggle number i of the toggle specification
AfterToggle(i) == IF i = Len(tgHist) THEN tgEnt ELSE tgHist[i + 1].before

\* every kind shows the same count in both entities (a missing kind shows 0)
SameCounts(a, b) == \A x \in Kinds : Count(a.reactions, x) = Count(b.reactions, x)

\* C5 as stated: from every starting reaction state, toggle(k) applied twice
\* leaves user_reaction and the count map exactly as before the first toggle
C5_TwiceRestoresAlways ==
    (Len(tgHist) = 2 /\ tgHist[1].kind = tgHist[2].kind)
    => tgEnt = tgHist[1].before

\* C5 as it holds: when the viewer starts with no reaction or with kind k
\* active, toggle(k) applied twice leaves user_reaction and the count every
\* kind shows as before the first toggle
C5_TwiceRestoresFromNoneOrSame ==
    (/\ Len(tgHist) = 2
     /\ tgHist[1].kind = tgHist[2].kind
     /\ tgHist[1].before.user_reaction \in {None, tgHist[1].kind})
    => /\ tgEnt.user_reaction = tgHist[1].before.user_reaction
       /\ SameCounts(tgEnt, tgHist[1].before)

\* C5 witness: the same kind was toggled twice, starting from that kind active
C5_Witness ==
    /\ Len(tgHist) = 2
    /\ tgHist[1].kind = tgHist[2].kind
    /\ tgHist[1].before.user_reaction = tgHist[1].kind
    /\ tgHist[2].before.user_reaction = None
    /\ tgEnt.user_reaction = tgHist[1].kind

\* C6: a toggle(k) on an entity whose viewer reaction is another kind j takes
\* one from count[j], adds one to count[k], leaves the other counts alone and
\* sets user_reaction to k
C6_SwitchMovesOneCount ==
    \A i \in 1..Len(tgHist) :
        LET b == tgHist[i].before
            k == tgHist[i].kind
            j == b.user_reaction
            a == AfterToggle(i)
        IN  (j # None /\ j # k) =>
                /\ Count(a.reactions, j) = Count(b.reactions, j) - 1
                /\ Count(a.reactions, k) = Count(b.reactions, k) + 1
                /\ \A x \in Kinds \ {j, k} :
                      Count(a.reactions, x) = Count(b.reactions, x)
                /\ a.user_reaction = k

\* C6 witness: like was active and funny was toggled
C6_Witness ==
    /\ Len(tgHist) = 1
    /\ tgHist[1].before.user_reaction = "like"
    /\ tgHist[1].kind = "funny"
    /\ tgEnt.user_reaction = "funny"

\* the questions and comments the replica holds
ReplicaEntities ==
    {questions[i] : i \in 1..Len(questions)}
        \cup {question[i] : i \in 1..Len(question)}
        \cup {comments[i] : i \in 1..Len(comments)}

\* the reactions of an entity that are not the viewer's own
OthersCount(e, k) == Count(e.reactions, k) - (IF e.user_reaction = k THEN 1 ELSE 0)

\* the entity a reaction click was made on, as the replica holds it now
Clicked ==
    IF ev.op = "react" THEN Find(questions, ev.id)
    ELSE IF ev.op = "qreact" THEN question[1]
    ELSE Find(comments, ev.id)

\* C7: in every replica state the viewer holds no reaction or one kind of
\* REACTION_TYPES on each question and comment, that kind is counted, and a
\* click changes the counts by the viewer's single reaction only (what the
\* other users contribute to every kind stays as it was)
C7_AtMostOneReaction ==
    /\ \A e \in ReplicaEntities :
          /\ e.user_reaction \in Kinds \cup {None}
          /\ e.user_reaction # None => Count(e.reactions, e.user_reaction) >= 1
    /\ (/\ ev.phase = "call"
        /\ ev.op \in {"react", "qreact", "creact"}
        /\ ev.pre # <<>>)
       => \A x \in Kinds : OthersCount(Clicked, x) = OthersCount(ev.pre[1], x)

\* C7 witness: the viewer held like on a question and clicked funny
C7_Witness ==
    /\ ev.phase = "call"
    /\ ev.op = "react"
    /\ ev.pre # <<>>
    /\ ev.pre[1].user_reaction = "like"
    /\ Find(questions, ev.id).user_reaction = "funny"

\* C8: an edit, delete or resolve handler of a question or comment called
\* while the logged-in username differs from the author of that entity starts
\* no request and changes nothing in the replica
C8_NonAuthorDoesNothing ==
    [][/\ \A id \in QIds :
            (/\ HasId(questions, id)
             /\ Find(questions, id).author # user
             /\ \/ SaveEditQuestion(id)
                \/ SetResolved(id)
                \/ \E ok \in BOOLEAN : DeleteQuestion(id, ok))
            => (nextSeq' = nextSeq /\ replica' = replica)
       /\ \A cid \in CIds :
            (/\ HasId(comments, cid)
             /\ Find(comments, cid).author # user
             /\ \/ SaveEditComment(cid)
                \/ \E ok \in BOOLEAN : DeleteComment(cid, ok))
            => (nextSeq' = nextSeq /\ replica' = replica)]_vars

\* C9: a reaction click while no user is logged in raises the must-log-in
\* alert, starts no request and leaves the replica unchanged
C9_ReactionNeedsLogin ==
    (/\ ev.phase = "call"
     /\ ev.op \in {"react", "qreact", "creact"}
     /\ user = None)
    => (ev.alert = "login" /\ ~ev.sent /\ ~ev.changed)

\* C9 witness: a reaction was clicked on a listed question with no user logged in
C9_Witness ==
    /\ ev.phase = "call"
    /\ ev.op = "react"
    /\ user = None
    /\ HasId(questions, ev.id)
    /\ ev.alert = "login"

\* C10: a list or load whose request failed (network failure, or a non-2xx
\* status of any fetch it makes) leaves the replica unchanged
C10_FailedPollChangesNothing ==
    (/\ EvDone
     /\ ev.op \in {"list", "load"}
     /\ ev.outcome \in {"rej", "netfail"})
    => ~ev.changed

\* ------------------------------------------------- the feed's polling, unbounded
\* the polls of the interval are outside the run's numbered requests: they
\* carry the numbers 0, -1, ..., one for each request that can be in flight
LiveSlots == {0 - i : i \in 0 .. MaxInFlight - 1}

FreeSlot == CHOOSE i \in LiveSlots :
                /\ \A m \in net : m.seq # i
                /\ \A j \in LiveSlots : (\A m \in net : m.seq # j) => j <= i

\* the interval fires without end: fetchQuestions (lines 45-57) up to its
\* await; setInterval (line 61) starts a poll whether or not the one before
\* it has been answered, so polls overlap each other and the user's requests
\* up to the run's bound on requests in flight
LivePollTick(t) ==
    /\ view = "feed"
    /\ t \in timers
    /\ Cardinality(net) < MaxInFlight
    /\ net' = net \cup {Msg(FreeSlot, "feed", "list", NoId, t, NoArg, <<>>)}
    /\ UNCHANGED <<srvVars, nextSeq, applied, propVars, feedVars, threadVars,
                   tgVars, appVars, formVars>>
    /\ ev' = [Ev("poll", "call", NoId, None, None, <<>>, <<>>, FreeSlot)
                EXCEPT !.sent = TRUE]

\* the user reacts, resolves, deletes and changes while the numbered requests last
UserStep ==
    /\ nextSeq <= MaxLiveReq
    /\ \/ \E u \in Users \cup {None} : SetUser(u)
       \/ \E id \in QIds, k \in ClickKinds : HandleReaction(id, k)
       \/ \E id \in QIds : DeleteQuestion(id, TRUE)
       \/ \E id \in QIds : SetResolved(id)

\* the timer of the polling effect fires
TimerFires == \E t \in timers : LivePollTick(t)

\* the server answers a list request with the list
ListServed == \E m \in net : m.op = "list" /\ ServerHandle(m)

\* a list response with status 200 arrives
ListArrives == \E m \in net : m.op = "list" /\ m.st = "ok" /\ Deliver(m)

\* a request ends: its response arrives or it fails
LiveRequestEnds == \E m \in net : Deliver(m) \/ NetFail(m)

NextLive ==
    \/ UserStep
    \/ TimerFires
    \/ \E m \in net : ServerHandle(m)
    \/ \E m \in net : ServerReject(m)
    \/ \E m \in net : Deliver(m)
    \/ \E m \in net : NetFail(m)

\* the forum feed with a server that holds question 1
InitLive ==
    /\ MountedOn("feed", [Question2 EXCEPT !.present = FALSE], Comment2)
    /\ tgEnt = NoEntity
    /\ tgHist = <<>>

\* the interval keeps firing (setInterval), outstanding requests complete,
\* and polls eventually succeed
SpecLive ==
    /\ InitLive
    /\ [][NextLive]_vars
    /\ WF_vars(TimerFires)
    /\ WF_vars(LiveRequestEnds)
    /\ SF_vars(ListServed)
    /\ SF_vars(ListArrives)

\* C11: with the poll timer firing and polls eventually succeeding, the replica
\* eventually equals the server's list for the viewer and stays equal to it
\* (the user's mutations end and outstanding requests complete or stay out)
C11_EventuallyConsistent == <>[](questions = QList(user))

\* C11 witness: the user's numbered requests are used up, nothing is in
\* flight, and the response of a poll that was started while another poll was
\* in flight has just replaced the replica with a list the server no longer
\* holds: only a later poll can repair it
C11_Witness ==
    /\ nextSeq > MaxLiveReq
    /\ net = {}
    /\ ev.op = "list"
    /\ ev.phase = "done"
    /\ ev.outcome = "ok"
    /\ ev.seq < 0
    /\ questions # QList(user)
    /\ questions # <<>>

\* ================================================================ the forms
\* what the AI answers, and the texts shown when a send fails
\* (AIChatWindow.tsx line 75, App.tsx line 190)
Reply == TextA
ErrorText(v) == IF v = "insight" THEN <<"e", "i">> ELSE <<"e", "c">>

\* what is typed into the nickname input
NameAlice == <<" ", "a", "l", "i", "c", "e">>
TypedNames == {Blank, NameAlice}

\* ------------------------------------------- the server, for the new requests
\* (section 6 of the design document)
\* the lowest id the server has not given out yet
FreeQ == {i \in QIds : ~srvQ[i].present}
FreeC == {i \in CIds : ~srvC[i].present}

\* GET /chat/history: the stored messages, without the server's own columns
HistoryOf(key) ==
    [i \in 1..Len(srvHist[key]) |->
        [role |-> srvHist[key][i].role, content |-> srvHist[key][i].content]]

\* POST /questions, POST /questions/{id}/comments, GET /chat/history,
\* POST /chat, POST /lecturer/insight, POST /login
ServerHandleForm(m) ==
    /\ m \in net
    /\ m.st = "sent"
    /\ m.op \in {"create", "post", "history", "chat", "login"}
    /\ CASE m.op = "create" ->
              /\ FreeQ # {}
              /\ LET id == CHOOSE i \in FreeQ : \A j \in FreeQ : i <= j
                     q == [present |-> TRUE, author |-> m.arg.author,
                           content |-> m.arg.content, tags |-> m.arg.tags,
                           resolved |-> FALSE, react |-> NoReact]
                 IN  /\ srvQ' = [srvQ EXCEPT ![id] = q]
                     /\ net' = Answer(m, "ok", <<QViewOf(q, id, None)>>)
              /\ UNCHANGED <<srvC, srvHist>>
         [] m.op = "post" ->
              /\ FreeC # {}
              /\ LET id == CHOOSE i \in FreeC : \A j \in FreeC : i <= j
                     c == [present |-> TRUE, question_id |-> m.id,
                           author |-> m.arg.author, content |-> m.arg.content,
                           created_at |-> "t3", react |-> NoReact]
                 IN  /\ srvC' = [srvC EXCEPT ![id] = c]
                     /\ net' = Answer(m, "ok", <<CViewOf(c, id, None)>>)
              /\ UNCHANGED <<srvQ, srvHist>>
         [] m.op = "history" ->
              /\ net' = Answer(m, "ok", HistoryOf(m.arg.session_id))
              /\ UNCHANGED <<srvQ, srvC, srvHist>>
         [] m.op = "chat" ->
              /\ srvHist' = [srvHist EXCEPT ![m.arg.session_id] =
                                @ \o <<[role |-> "user", content |-> m.arg.message,
                                        via |-> m.arg.via],
                                       [role |-> "model", content |-> Reply,
                                        via |-> m.arg.via]>>]
              /\ net' = Answer(m, "ok", <<Reply>>)
              /\ UNCHANGED <<srvQ, srvC>>
         [] m.op = "login" ->
              /\ net' = Answer(m, "ok",
                               <<IF m.arg.username = Trim(NameAlice)
                                 THEN "alice" ELSE "bob">>)
              /\ UNCHANGED <<srvQ, srvC, srvHist>>
    /\ UNCHANGED <<nextSeq, applied, propVars, feedVars, threadVars, ev, tgVars, appVars,
                   feedForm, threadForm, chatVars, loginVars>>

\* ------------------------------------- ForumFeed.tsx: the new-question form
\* typing into the textarea of the form (lines 266-272)
TypeInputContent(c) ==
    /\ FormShown
    /\ inputContent # c
    /\ inputContent' = c
    /\ UNCHANGED <<srvVars, net, nextSeq, applied, propVars, feedVars, threadVars,
                   tgVars, appVars, inputTags, feedLoading, threadForm, chatVars, srvHist,
                   loginVars>>
    /\ ev' = Ev("type", "call", NoId, None, None, <<>>, <<>>, 0)

\* typing into the tags input of the form (lines 273-278)
TypeInputTags(t) ==
    /\ FormShown
    /\ inputTags # t
    /\ inputTags' = t
    /\ UNCHANGED <<srvVars, net, nextSeq, applied, propVars, feedVars, threadVars,
                   tgVars, appVars, inputContent, feedLoading, threadForm, chatVars, srvHist,
                   loginVars>>
    /\ ev' = Ev("type", "call", NoId, None, None, <<>>, <<>>, 0)

\* typing into the tags input of the edit form (lines 403-409)
TypeEditTags(t) ==
    /\ view = "feed"
    /\ editingQuestionId # NoId
    /\ HasId(questions, editingQuestionId)
    /\ editTags # t
    /\ editTags' = t
    /\ UNCHANGED <<srvVars, net, nextSeq, applied, propVars, questions,
                   editingQuestionId, editContent, savingEdit, threadVars, tgVars, appVars,
                   formVars>>
    /\ ev' = Ev("type", "call", NoId, None, None, <<>>, <<>>, 0)

\* the body of POST /api/questions (lines 69-78)
CreateBody ==
    [author |-> IF user = None THEN "Anonymous" ELSE user,
     content |-> inputContent,
     tags |-> ParseTags(inputTags)]

\* a plausible slip: the content is not trimmed before the emptiness test
SubmitRefusedNoTrim == inputContent = <<>> \/ feedLoading

\* if (!inputContent.trim() || loading) return; (line 66)
SubmitRefused == IsBlankText(inputContent) \/ feedLoading

\* submitQuestion (lines 65-91) up to its await
SubmitQuestion ==
    /\ FormShown
    /\ SubmitRefused \/ CanSend
    /\ UNCHANGED <<srvVars, applied, propVars, feedVars, threadVars, tgVars, appVars,
                   inputContent, inputTags, threadForm, chatVars, srvHist, loginVars>>
    /\ IF SubmitRefused
       THEN /\ UNCHANGED <<feedLoading, net, nextSeq>>
            /\ ev' = Ev("create", "call", NoId, None, None, <<>>, <<>>, 0)
       ELSE /\ feedLoading' = TRUE
            /\ net' = net \cup {Msg(nextSeq, "feed", "create", NoId, user,
                                    CreateBody, <<>>)}
            /\ nextSeq' = nextSeq + 1
            /\ ev' = Ev("create", "call", NoId, None, None, <<>>, <<>>, nextSeq)

\* a plausible slip: loading is cleared after a successful submit only
SubmitDoneNoFinally(m, o) ==
    /\ inputContent' = IF o = "ok" THEN <<>> ELSE inputContent
    /\ inputTags' = IF o = "ok" THEN <<>> ELSE inputTags
    /\ feedLoading' = IF o = "ok" THEN FALSE ELSE feedLoading
    /\ IF o = "ok"
       THEN /\ net' = (net \ {m}) \cup {FollowList(m)}
            /\ nextSeq' = nextSeq + 1
       ELSE /\ net' = net \ {m}
            /\ UNCHANGED nextSeq
    /\ UNCHANGED <<srvVars, applied, propVars, feedVars, threadVars, tgVars, appVars,
                   threadForm, chatVars, srvHist, loginVars>>
    /\ ev' = Ev("create", "done", NoId, o,
                IF o = "netfail" THEN "failed" ELSE None, <<>>, <<>>, m.seq)

\* submitQuestion after its await (lines 79-90): a response that is not ok
\* falls through to finally
SubmitDone(m, o) ==
    /\ inputContent' = IF o = "ok" THEN <<>> ELSE inputContent
    /\ inputTags' = IF o = "ok" THEN <<>> ELSE inputTags
    /\ feedLoading' = FALSE
    /\ IF o = "ok"
       THEN /\ net' = (net \ {m}) \cup {FollowList(m)}
            /\ nextSeq' = nextSeq + 1
       ELSE /\ net' = net \ {m}
            /\ UNCHANGED nextSeq
    /\ UNCHANGED <<srvVars, applied, propVars, feedVars, threadVars, tgVars, appVars,
                   threadForm, chatVars, srvHist, loginVars>>
    /\ ev' = Ev("create", "done", NoId, o,
                IF o = "netfail" THEN "failed" ELSE None, <<>>, <<>>, m.seq)

\* ------------------------------- Markdown.tsx: QuestionThread, the comment form
\* typing into the comment textarea (lines 614-620), disabled without a user
TypeComment(c) ==
    /\ ThreadShown
    /\ user # None
    /\ commentInput # c
    /\ commentInput' = c
    /\ UNCHANGED <<srvVars, net, nextSeq, applied, propVars, feedVars, threadVars,
                   tgVars, appVars, feedForm, posting, chatVars, srvHist, loginVars>>
    /\ ev' = Ev("type", "call", NoId, None, None, <<>>, <<>>, 0)

\* postComment (lines 173-197) up to its await; the send button is disabled
\* without a user and while a comment is being posted (line 622), so the
\* login alert of line 174 and the posting test of line 177 are never reached
PostComment ==
    /\ view = "thread"
    /\ user # None
    /\ ~posting
    /\ IsBlankText(commentInput) \/ CanSend
    /\ UNCHANGED <<srvVars, applied, propVars, feedVars, threadVars, tgVars, appVars,
                   feedForm, commentInput, chatVars, srvHist, loginVars>>
    /\ IF IsBlankText(commentInput)
       THEN /\ UNCHANGED <<posting, net, nextSeq>>
            /\ ev' = Ev("post", "call", ThreadId, None, None, <<>>, <<>>, 0)
       ELSE /\ posting' = TRUE
            /\ net' = net \cup {Msg(nextSeq, "thread", "post", ThreadId, user,
                                    [author |-> user, content |-> commentInput],
                                    <<>>)}
            /\ nextSeq' = nextSeq + 1
            /\ ev' = Ev("post", "call", ThreadId, None, None, <<>>, <<>>, nextSeq)

\* a plausible slip: the comment count of the question is bumped locally when
\* the comment has been posted
PostDoneCounting(m, o) ==
    /\ IF o = "ok"
       THEN /\ commentInput' = <<>>
            /\ question' = IF question = <<>> THEN question
                           ELSE <<[question[1] EXCEPT !.comment_count = @ + 1]>>
            /\ net' = (net \ {m}) \cup
                      {[Msg(nextSeq, "post", "load", m.qid, m.user, NoArg, <<>>)
                          EXCEPT !.qid = m.qid]}
            /\ nextSeq' = nextSeq + 1
            /\ loading' = TRUE
            /\ UNCHANGED posting
       ELSE /\ posting' = FALSE
            /\ net' = net \ {m}
            /\ UNCHANGED <<commentInput, nextSeq, loading, question>>
    /\ UNCHANGED <<srvVars, applied, propVars, feedVars, comments,
                   threadQEdit, threadCEdit, tgVars, appVars, feedForm, chatVars, srvHist,
                   loginVars>>
    /\ ev' = Ev("post", "done", m.id, o,
                IF o = "ok" THEN None ELSE "failed", <<>>, <<>>, m.seq)

\* postComment after its first await (lines 184-195): on success the input is
\* cleared and load() is awaited; posting stays set until load() returns
PostDone(m, o) ==
    /\ IF o = "ok"
       THEN /\ commentInput' = <<>>
            /\ net' = (net \ {m}) \cup
                      {[Msg(nextSeq, "post", "load", m.qid, m.user, NoArg, <<>>)
                          EXCEPT !.qid = m.qid]}
            /\ nextSeq' = nextSeq + 1
            /\ loading' = TRUE
            /\ UNCHANGED posting
       ELSE /\ posting' = FALSE
            /\ net' = net \ {m}
            /\ UNCHANGED <<commentInput, nextSeq, loading>>
    /\ UNCHANGED <<srvVars, applied, propVars, feedVars, question, comments,
                   threadQEdit, threadCEdit, tgVars, appVars, feedForm, chatVars, srvHist,
                   loginVars>>
    /\ ev' = Ev("post", "done", m.id, o,
                IF o = "ok" THEN None ELSE "failed", <<>>, <<>>, m.seq)

\* postComment after await load() (lines 186, 193-195)
PostLoadDone(m, o) ==
    /\ posting' = IF LoadFirstBody(m, o) THEN posting ELSE FALSE
    /\ UNCHANGED <<srvVars, propVars, tgVars, appVars, feedForm, commentInput, chatVars,
                   srvHist, loginVars>>
    /\ LoadDone(m, o)

\* -------------------- AIChatWindow.tsx / App.tsx LecturerInsightBoard: the chat
IsChat == view \in {"chat", "insight"}

\* 'guest-' + Math.random().toString(36).substr(2, 9), a new one at every render
GuestKeys == {<<"g", "u", "e", "s", "t", "-">> \o s : s \in {<<"x">>, <<"1">>}}

\* the sessionId of the current render
CurrentKeys == IF user = None THEN GuestKeys ELSE {SessionKey(view, user)}

\* the src of a request whose component was unmounted: its continuation still
\* runs, what it sets is dropped, what it fetches is fetched
GoneSrc(src) ==
    IF src = "feed" THEN "gone_feed"
    ELSE IF src \in {"thread", "post"} THEN "gone_thread"
    ELSE "gone"

IsGone(src) == src \in {"gone", "gone_feed", "gone_thread"}

\* the window is mounted for a user: useState defaults and the history effect
\* (AIChatWindow.tsx lines 15-37, App.tsx lines 133-154); what the window left
\* in flight still reaches the server, its continuations find no component.
\* Without a user the effect returns at once (AIChatWindow.tsx line 23) and
\* no request is started; with one, the mount is a request of the bounded run
MountChat(v, u) ==
    /\ IsChat
    /\ u # None => (nextSeq <= MaxChatReq /\ Cardinality(net) < MaxInFlight)
    /\ v = "insight" => u # None
    /\ view' = v
    /\ user' = u
    /\ messages' = <<>>
    /\ input' = <<>>
    /\ chatLoading' = FALSE
    /\ net' = {[x EXCEPT !.src = GoneSrc(x.src)] : x \in net} \cup
              (IF u = None THEN {} ELSE {HistoryMsg(nextSeq, v, u)})
    /\ nextSeq' = IF u = None THEN nextSeq ELSE nextSeq + 1
    /\ UNCHANGED <<srvVars, applied, timers, feedVars, threadVars, tgVars, appVars,
                   feedForm, threadForm, srvHist, loginVars>>
    /\ ev' = Ev("mount", "call", NoId, None, None, <<>>, <<>>,
                IF u = None THEN 0 ELSE nextSeq)

\* typing into the textarea (AIChatWindow.tsx line 123, App.tsx line 238)
TypeInput(c) ==
    /\ IsChat
    /\ input # c
    /\ input' = c
    /\ UNCHANGED <<srvVars, net, nextSeq, applied, propVars, feedVars, threadVars,
                   tgVars, appVars, feedForm, threadForm, messages, chatLoading, srvHist,
                   loginVars>>
    /\ ev' = Ev("type", "call", NoId, None, None, <<>>, <<>>, 0)

\* a plausible slip: the send does not look at the loading flag
SendMessageWhileLoading ==
    /\ IsChat
    /\ IsBlankText(input) \/ (nextSeq <= MaxChatReq /\ Cardinality(net) < MaxInFlight)
    /\ UNCHANGED <<srvVars, applied, propVars, feedVars, threadVars, tgVars, appVars,
                   feedForm, threadForm, srvHist, loginVars>>
    /\ IF IsBlankText(input)
       THEN /\ UNCHANGED <<messages, input, chatLoading, net, nextSeq>>
            /\ ev' = Ev("chat", "call", NoId, None, None, messages, <<>>, 0)
       ELSE /\ input' = <<>>
            /\ messages' = Append(messages, [role |-> "user", content |-> input])
            /\ chatLoading' = TRUE
            /\ \E key \in CurrentKeys :
                  net' = net \cup {Msg(nextSeq, view, "chat", NoId, user,
                                       [session_id |-> key, message |-> input,
                                        via |-> view],
                                       messages)}
            /\ nextSeq' = nextSeq + 1
            /\ ev' = Ev("chat", "call", NoId, None, None, messages, <<>>, nextSeq)

\* sendMessage (AIChatWindow.tsx lines 54-79) and askInsight (App.tsx lines
\* 169-194) up to the await
SendMessage ==
    /\ IsChat
    /\ IsBlankText(input) \/ chatLoading
          \/ (nextSeq <= MaxChatReq /\ Cardinality(net) < MaxInFlight)
    /\ UNCHANGED <<srvVars, applied, propVars, feedVars, threadVars, tgVars, appVars,
                   feedForm, threadForm, srvHist, loginVars>>
    /\ IF IsBlankText(input) \/ chatLoading
       THEN /\ UNCHANGED <<messages, input, chatLoading, net, nextSeq>>
            /\ ev' = Ev("chat", "call", NoId, None, None, messages, <<>>, 0)
       ELSE /\ input' = <<>>
            /\ messages' = Append(messages, [role |-> "user", content |-> input])
            /\ chatLoading' = TRUE
            /\ \E key \in CurrentKeys :
                  net' = net \cup {Msg(nextSeq, view, "chat", NoId, user,
                                       [session_id |-> key, message |-> input,
                                        via |-> view],
                                       messages)}
            /\ nextSeq' = nextSeq + 1
            /\ ev' = Ev("chat", "call", NoId, None, None, messages, <<>>, nextSeq)

\* sendMessage / askInsight after the await: the answer, or the error text, is
\* appended as a model message
SendDone(m, o) ==
    /\ messages' = Append(messages,
                          [role |-> "model",
                           content |-> IF o = "ok" THEN m.data[1]
                                       ELSE ErrorText(m.src)])
    /\ chatLoading' = FALSE
    /\ net' = net \ {m}
    /\ UNCHANGED <<srvVars, nextSeq, applied, propVars, feedVars, threadVars,
                   tgVars, appVars, feedForm, threadForm, input, srvHist, loginVars>>
    /\ ev' = Ev("chat", "done", NoId, o, None, m.pre, <<>>, m.seq)

\* a plausible slip: the history is loaded only into an empty transcript
ApplyHistoryIfEmpty(list) == IF messages = <<>> THEN list ELSE messages

\* setMessages(data.map(...)) (AIChatWindow.tsx lines 29-33, App.tsx lines 146-150)
ApplyHistory(list) == list

\* the history effect after its fetch: a response that is not ok counts as []
HistoryDone(m, o) ==
    /\ messages' = IF o = "ok" THEN ApplyHistory(m.data)
                   ELSE IF o = "rej" THEN ApplyHistory(<<>>)
                   ELSE messages
    /\ net' = net \ {m}
    /\ UNCHANGED <<srvVars, nextSeq, applied, propVars, feedVars, threadVars,
                   tgVars, appVars, feedForm, threadForm, input, chatLoading, srvHist,
                   loginVars>>
    /\ ev' = Ev("history", "done", NoId, o, None, messages, <<>>, m.seq)

\* the continuation of a request whose component was unmounted calls
\* fetchQuestions() (ForumFeed.tsx lines 83, 131, 169, 243) or load()
\* (Markdown.tsx lines 190, 292, 296, 341, 385) where the mounted one does
GoneFetches(m, o) ==
    \/ /\ m.src = "gone_feed"
       /\ \/ m.op = "react" /\ o = "netfail"
          \/ m.op \in {"delete", "resolve"} /\ o # "ok"
          \/ m.op = "create" /\ o = "ok"
    \/ /\ m.src = "gone_thread"
       /\ \/ m.op \in {"react", "creact"} /\ o = "netfail"
          \/ m.op = "cdelete"
          \/ m.op = "post" /\ o = "ok"

\* alert() of such a continuation, as in the mounted one
GoneAlert(m, o) ==
    IF \/ m.op \in {"delete", "resolve", "edit", "cedit", "cdelete", "post"} /\ o # "ok"
       \/ m.op = "create" /\ o = "netfail"
    THEN "failed" ELSE None

\* the continuation of a request whose component was unmounted: the state it
\* sets belongs to no component
GoneDone(m, o) ==
    /\ IF GoneFetches(m, o)
       THEN /\ net' = (net \ {m}) \cup
                      {[(IF m.src = "gone_feed" THEN FollowList(m) ELSE FollowLoad(m))
                          EXCEPT !.src = m.src]}
            /\ nextSeq' = nextSeq + 1
       ELSE /\ net' = net \ {m}
            /\ UNCHANGED nextSeq
    /\ UNCHANGED <<srvVars, applied, propVars, feedVars, threadVars,
                   tgVars, appVars, formVars>>
    /\ ev' = Ev("gone", "done", NoId, o, GoneAlert(m, o), <<>>, <<>>, m.seq)

\* --------------------------------------------------------- LoginModal.tsx
\* typing into the nickname input (line 57)
TypeUsername(t) ==
    /\ view = "login"
    /\ username # t
    /\ username' = t
    /\ UNCHANGED <<srvVars, net, nextSeq, applied, propVars, feedVars, threadVars,
                   tgVars, appVars, feedForm, threadForm, chatVars, srvHist, loginLoading,
                   error>>
    /\ ev' = Ev("type", "call", NoId, None, None, <<>>, <<>>, 0)

\* handleLogin (lines 17-41) up to its await, from the button or the Enter key
HandleLogin ==
    /\ view = "login"
    /\ IsBlankText(username) \/ CanSend
    /\ UNCHANGED <<srvVars, applied, propVars, feedVars, threadVars, tgVars, appVars,
                   feedForm, threadForm, chatVars, srvHist, username>>
    /\ IF IsBlankText(username)
       THEN /\ UNCHANGED <<loginLoading, error, net, nextSeq>>
            /\ ev' = Ev("login", "call", NoId, None, None, <<>>, <<>>, 0)
       ELSE /\ loginLoading' = TRUE
            /\ error' = None
            /\ net' = net \cup {Msg(nextSeq, "login", "login", NoId, None,
                                    [username |-> Trim(username)], <<>>)}
            /\ nextSeq' = nextSeq + 1
            /\ ev' = Ev("login", "call", NoId, None, None, <<>>, <<>>, nextSeq)

\* handleLogin after its await: onLogin(user), or the error line
LoginDone(m, o) ==
    /\ user' = IF o = "ok" THEN m.data[1] ELSE user
    /\ error' = IF o = "ok" THEN error ELSE IF o = "rej" THEN "failed" ELSE "server"
    /\ loginLoading' = FALSE
    /\ net' = net \ {m}
    /\ UNCHANGED <<srvVars, nextSeq, applied, view, timers, feedVars, threadVars,
                   tgVars, appVars, feedForm, threadForm, chatVars, srvHist, username>>
    /\ ev' = Ev("login", "done", NoId, o, None, <<>>, <<>>, m.seq)

\* ------------------------------------------------- delivery, for the forms
FormDone(m, o) ==
    CASE m.src = "feed" /\ m.op = "create" -> SubmitDone(m, o)
      [] m.src = "thread" /\ m.op = "post" -> PostDone(m, o)
      [] m.src = "post" /\ m.op = "load" -> PostLoadDone(m, o)
      [] m.src \in {"chat", "insight"} /\ m.op = "chat" -> SendDone(m, o)
      [] m.src \in {"chat", "insight"} /\ m.op = "history" -> HistoryDone(m, o)
      [] m.src = "login" -> LoginDone(m, o)
      [] IsGone(m.src) -> GoneDone(m, o)
      [] OTHER -> FALSE

\* fetch() resolves, 2xx or not
FormDeliver(m) ==
    /\ m \in net
    /\ m.st \in {"ok", "rej", "read"}
    /\ m.st2 \in {"ok", "rej", "na"}
    /\ FormDone(m, m.st)

\* fetch() rejects
FormNetFail(m) ==
    /\ m \in net
    /\ FormDone(m, "netfail")

\* ------------------------------------------------ the forms: specifications
NoQuestion == [Question2 EXCEPT !.present = FALSE]
NoComment == [Comment2 EXCEPT !.present = FALSE]

\* a component with a form is mounted; the server has given out one question
\* id and one comment id
InitForms ==
    /\ \E v \in {"feed", "thread", "login", "chat", "insight"} :
          MountedOn(v, NoQuestion, NoComment)
    /\ view = "login" => user = None
    /\ view = "insight" => user # None
    /\ tgEnt = NoEntity
    /\ tgHist = <<>>

NextForms ==
    \/ \E m \in net : ServerHandle(m)
    \/ \E m \in net : ServerHandleComment(m)
    \/ \E m \in net : ServerHandleForm(m)
    \/ \E m \in net : ServerReject(m)
    \/ \E c \in TypedContents : TypeInputContent(c)
    \/ SubmitQuestion
    \/ \E id \in QIds : StartEditQuestion(id)
    \/ \E c \in TypedContents : TypeEditContent(c)
    \/ \E id \in QIds : SaveEditQuestion(id)
    \/ \E c \in TypedContents : TypeComment(c)
    \/ PostComment
    \/ ThreadStartEditQuestion
    \/ \E c \in TypedContents : ThreadTypeQuestion(c)
    \/ ThreadSaveEditQuestion
    \/ \E cid \in CIds : StartEditComment(cid)
    \/ \E c \in TypedContents : TypeEditComment(c)
    \/ \E cid \in CIds : SaveEditComment(cid)
    \/ \E t \in TypedNames : TypeUsername(t)
    \/ HandleLogin
    \/ \E c \in TypedContents : TypeInput(c)
    \/ SendMessage
    \/ \E m \in net : Deliver(m)
    \/ \E m \in net : NetFail(m)
    \/ \E m \in net : FormDeliver(m)
    \/ \E m \in net : FormNetFail(m)

SpecForms == InitForms /\ [][NextForms]_vars

\* the chat window and the insight board with their server
InitChat ==
    /\ \E v \in {"chat", "insight"} : Mounted(v)
    /\ view = "insight" => user # None
    /\ tgEnt = NoEntity
    /\ tgHist = <<>>

NextChat ==
    \/ \E m \in net : ServerHandleForm(m)
    \/ \E m \in net : ServerReject(m)
    \/ \E v \in {"chat", "insight"}, u \in Users \cup {None} : MountChat(v, u)
    \/ \E c \in TypedContents : TypeInput(c)
    \/ SendMessage
    \/ \E m \in net : FormDeliver(m)
    \/ \E m \in net : FormNetFail(m)

SpecChat == InitChat /\ [][NextChat]_vars

\* ------------------------------------------------------ the chat transcript
IsPrefix(a, b) == Len(a) <= Len(b) /\ SubSeq(b, 1, Len(a)) = a

\* C12: within one mounted chat or insight session every change of the
\* transcript is an append: the message list before a step is a prefix of the
\* list after it, also when the history fetch completes after a send
C12_TranscriptAppendOnly ==
    [][(IsChat /\ ev'.op # "mount") => IsPrefix(messages, messages')]_vars

\* C13: after a chat or insight send has failed and its continuation has run,
\* the transcript is the transcript before the send
C13_FailedSendReverts ==
    (/\ EvDone
     /\ ev.op = "chat"
     /\ ev.outcome \in {"rej", "netfail"})
    => messages = ev.pre

\* --------------------------------------------------------- comment counts
\* the thread with its comment form: comments are posted, deleted and reacted
\* to while the thread polls; the server has given out one comment id
InitCount ==
    /\ MountedOn("thread", Question2, NoComment)
    /\ tgEnt = NoEntity
    /\ tgHist = <<>>

NextCount ==
    \/ \E m \in net : ServerHandle(m)
    \/ \E m \in net : ServerHandleComment(m)
    \/ \E m \in net : ServerHandleForm(m)
    \/ \E m \in net : ServerReject(m)
    \/ \E t \in timers : ThreadPollTick(t)
    \/ \E k \in ClickKinds : HandleQuestionReaction(k)
    \/ \E cid \in CIds, k \in ClickKinds : HandleCommentReaction(cid, k)
    \/ \E c \in TypedContents : TypeComment(c)
    \/ PostComment
    \/ \E cid \in CIds, ok \in BOOLEAN : DeleteComment(cid, ok)
    \/ \E m \in net : Deliver(m)
    \/ \E m \in net : NetFail(m)
    \/ \E m \in net : FormDeliver(m)
    \/ \E m \in net : FormNetFail(m)

SpecCount == InitCount /\ [][NextCount]_vars

\* the questions a replica holds: the feed's list and the thread's question
Held == questions \o question

\* comment_count of question id in a list of questions, -1 when it is not there
CountIn(list, id) == IF HasId(list, id) THEN Find(list, id).comment_count ELSE -1

\* C14: no client-side step changes the comment_count of a question in the
\* replica: whenever a step leaves a question with a comment_count it did not
\* have before, the step is the continuation of a successful request and the
\* question is an object of that request's response
C14_CountOnlyFromServer ==
    [][\A id \in QIds :
          CountIn(Held', id) \notin {CountIn(Held, id), -1}
          => \E m \in net :
                /\ m.seq = ev'.seq
                /\ ev'.phase \in {"body", "done", "done_over"}
                /\ m.st = "ok"
                /\ \E i \in 1..Len(m.data) : m.data[i] = Find(Held', id)]_vars

\* C14 witness: a comment was posted, and the load that followed has replaced
\* the question by the server's object with its new comment_count
C14_Witness ==
    /\ view = "thread"
    /\ ev.op = "load"
    /\ ev.phase = "done"
    /\ ~posting
    /\ commentInput = <<>>
    /\ question # <<>>
    /\ question[1].comment_count = 2
    /\ Len(comments) = 2

\* ----------------------------------------------------------- blank submits
\* the handlers that submit a draft, and the draft each of them tests
SubmitOps == {"create", "edit", "qedit", "cedit", "post", "chat", "login"}

DraftOf(op) ==
    CASE op = "create" -> inputContent
      [] op = "edit" -> editContent
      [] op = "qedit" -> editQuestionContent
      [] op = "cedit" -> editCommentContent
      [] op = "post" -> commentInput
      [] op = "chat" -> input
      [] op = "login" -> username

\* C15: a submit whose content is empty or only whitespace (new question,
\* question edit, comment, comment edit, chat message, insight query, login
\* nickname) starts no request and changes neither replica nor transcript
\* (a handler step is a step that leaves a new observation in ev)
C15_BlankSubmitDoesNothing ==
    [][(/\ ev' # ev
        /\ ev'.op \in SubmitOps
        /\ ev'.phase = "call"
        /\ IsBlankText(DraftOf(ev'.op)))
       => /\ net' = net
          /\ nextSeq' = nextSeq
          /\ replica' = replica
          /\ messages' = messages
          /\ srvVars' = srvVars]_vars

\* C15 witness: the new-question form was submitted with a content of one
\* space, and nothing was sent
C15_Witness ==
    /\ view = "feed"
    /\ ev.op = "create"
    /\ ev.phase = "call"
    /\ inputContent = Blank
    /\ ~feedLoading
    /\ questions # <<>>
    /\ \A m \in net : m.op # "create"

\* ------------------------------------------------------ failure notifications
\* C16: every mutation request that fails, by a network failure or by a non-2xx
\* response (create question, post comment, react, resolve, edit, delete),
\* produces a user-visible error notification when its continuation runs
C16_FailedMutationNotifies ==
    (/\ EvDone
     /\ ev.op \in {"create", "post", "react", "qreact", "creact", "resolve",
                   "edit", "qedit", "cedit", "delete", "cdelete"}
     /\ ev.outcome \in {"rej", "netfail"})
    => ev.alert # None

\* ------------------------------------------------------------------- tags
\* the tags texts under test: every text of up to MaxTagLen characters over
\* letters, comma and space, the text of the documented example, and a text
\* whose white space is a carriage return and a form feed
TagAlphabet == {"a", "b", ",", " "}
TagsExample == <<"j", "s", ",", " ", "b", "e", "g", "i", "n", "n", "e", "r">>
TagsReturn == <<"a", ",", "\r", "b", "\f">>
TagInputs ==
    UNION {[1..k -> TagAlphabet] : k \in 0..MaxTagLen} \cup {TagsExample, TagsReturn}

\* the feed with a filled new-question form whose tags input holds a text
\* under test; the same text is typed into the edit form
InitTags ==
    /\ MountedOn("feed", NoQuestion, Comment2)
    /\ user = "alice"
    /\ tgEnt = NoEntity
    /\ tgHist = <<>>

TypeForms ==
    \/ \E c \in {TextB} : TypeInputContent(c)
    \/ \E t \in TagInputs : inputTags = <<>> /\ feedLoading = FALSE
                            /\ nextSeq = 2 /\ TypeInputTags(t)
    \/ \E t \in {inputTags} : TypeEditTags(t)

NextTags ==
    \/ TypeForms
    \/ \E m \in net : ServerHandle(m)
    \/ \E m \in net : ServerHandleForm(m)
    \/ SubmitQuestion
    \/ \E id \in QIds : StartEditQuestion(id)
    \/ \E id \in QIds : SaveEditQuestion(id)
    \/ \E m \in net : Deliver(m)
    \/ \E m \in net : FormDeliver(m)

SpecTags == InitTags /\ [][NextTags]_vars

\* the positions that bound the pieces of a text: before it, its commas, after it
Cuts(s) == {0, Len(s) + 1} \cup {i \in 1..Len(s) : s[i] = ","}
NthCut(s, n) == CHOOSE x \in Cuts(s) : Cardinality({y \in Cuts(s) : y < x}) = n - 1

\* a piece without the spaces around it
Strip(p) ==
    LET ink == {i \in 1..Len(p) : ~IsSpace(p[i])}
    IN  IF ink = {} THEN <<>>
        ELSE SubSeq(p, CHOOSE i \in ink : \A j \in ink : i <= j,
                       CHOOSE i \in ink : \A j \in ink : i >= j)

\* the comma-split of a text, each piece trimmed, empty pieces dropped, in order
ExpectedTags(s) ==
    LET n == Cardinality(Cuts(s)) - 1
        pieces == [k \in 1..n |->
                     Strip(SubSeq(s, NthCut(s, k) + 1, NthCut(s, k + 1) - 1))]
    IN  SelectSeq(pieces, LAMBDA p : p # <<>>)

\* the create or edit request the last handler step has sent, and its tags text
SentTags == {m \in net : m.seq = ev.seq /\ m.op \in {"create", "edit"}
                         /\ ev.phase = "call" /\ ev.op \in {"create", "edit"}}
TagsDraft == IF ev.op = "create" THEN inputTags ELSE editTags

\* C17: the tag list sent on question create and edit is the comma-split of the
\* tags input, each piece trimmed and empty pieces dropped, in input order;
\* "js, beginner" yields ["js", "beginner"]
C17_TagsSplitTrimmed ==
    \A m \in SentTags :
        /\ m.arg.tags = ExpectedTags(TagsDraft)
        /\ TagsDraft = TagsExample
              => m.arg.tags = <<<<"j", "s">>, <<"b", "e", "g", "i", "n", "n", "e", "r">>>>

\* C17 witness: an edit was sent whose tags text has two tags and a space
\* before the second
C17_Witness ==
    \E m \in SentTags :
        /\ m.op = "edit"
        /\ editTags = <<"b", ",", " ", "a">>
        /\ m.arg.tags = <<<<"b">>, <<"a">>>>

\* C18: the tag list sent on question create and edit holds no two equal
\* entries: duplicate tags of the input are dropped before submission
C18_NoDuplicateTags ==
    \A m \in SentTags :
        \A i, j \in 1..Len(m.arg.tags) : m.arg.tags[i] = m.arg.tags[j] => i = j

\* ------------------------------------------------------- session separation
\* C19: the session key of the lecturer insight view is never the session key
\* of a student chat session, for all user ids: no stored history holds
\* messages of both an insight and a chat session, and no insight request
\* carries the key of a chat request
C19_InsightKeyApart ==
    /\ \A k \in DOMAIN srvHist :
          \A i, j \in 1..Len(srvHist[k]) : srvHist[k][i].via = srvHist[k][j].via
    /\ \A m \in net :
          m.op = "chat" /\ m.arg.via = "insight"
          => /\ srvHist[m.arg.session_id] # <<>>
                => srvHist[m.arg.session_id][1].via = "insight"
             /\ \A u \in Users : m.arg.session_id # StudentKey(UserId(u))
             /\ m.arg.session_id \notin GuestKeys

\* C19 witness: the same user has talked in the chat window and, after a switch
\* of role, in the insight board; both histories are stored
C19_Witness ==
    \E u \in Users :
        /\ srvHist[StudentKey(UserId(u))] # <<>>
        /\ srvHist[LecturerKey(UserId(u))] # <<>>
        /\ view = "insight"
        /\ user = u

\* ---------------------------------------------------- responses after a delete
\* C20: the response of an edit or resolve request for an id that the replica
\* no longer holds (it was removed by a delete) neither re-inserts nor modifies
\* that id: the id is still absent once the continuation has run
C20_RemovedStaysRemoved ==
    [][(/\ ev' # ev
        /\ ev'.phase \in {"done", "done_over"})
       => /\ (ev'.op \in {"edit", "resolve"} /\ ~HasId(questions, ev'.id))
                => ~HasId(questions', ev'.id)
          /\ (ev'.op = "cedit" /\ ~HasId(comments, ev'.id))
                => ~HasId(comments', ev'.id)]_vars

\* C20 witness: the successful response of the edit request of a comment has
\* been processed while the comment was deleted locally, its delete still in
\* flight
C20_Witness ==
    /\ EvDone
    /\ ev.op = "cedit"
    /\ ev.outcome = "ok"
    /\ ev.data # <<>>
    /\ comments # <<>>
    /\ ~HasId(comments, ev.id)
    /\ \E m \in net : m.op = "cdelete" /\ m.id = ev.id

\* the same for a question: the successful response of an edit or resolve
\* request has been processed while the question was deleted locally, its
\* delete still in flight
C20_QuestionCase ==
    /\ EvDone
    /\ ev.op \in {"edit", "resolve"}
    /\ ev.outcome = "ok"
    /\ ev.data # <<>>
    /\ ~HasId(questions, ev.id)
    /\ \E m \in net : m.op = "delete" /\ m.id = ev.id

\* ------------------------------------------------------- polls and teardown
\* C21: a poll whose polling effect was torn down by a change of user while
\* the request was in flight never applies its result: the continuation of a
\* list or load request started for another user leaves the replica unchanged
C21_TornDownPollNotApplied ==
    [][\A m \in net :
          (/\ ev' # ev
           /\ ev'.phase \in {"body", "done"}
           /\ ev'.op \in {"list", "load"}
           /\ ev'.seq = m.seq
           /\ m.op \in {"list", "load"}
           /\ m.user # user)
          => replica' = replica]_vars

\* ------------------------------------------------------ requests per entity
\* the requests of the given operations for entity id that are outstanding
Outstanding(ops, id) == {m \in net : m.op \in ops /\ m.id = id}

\* C24: toggles made on an entity while a reaction request for it is
\* outstanding are not sent one by one: at any time at most one reaction
\* request per question or comment is outstanding
C24_OneReactionRequestPerEntity ==
    /\ \A id \in QIds : Cardinality(Outstanding({"react"}, id)) <= 1
    /\ \A id \in CIds : Cardinality(Outstanding({"creact"}, id)) <= 1

\* C25: saving an edit applies the new content and tags to the replica at
\* once: right after a save that sent its request, the edited entity of the
\* replica carries the draft content and the parsed draft tags
C25_EditAppliedBeforeResponse ==
    /\ (ev.op = "edit" /\ ev.phase = "call" /\ ev.sent)
          => /\ HasId(questions, ev.id)
             /\ Find(questions, ev.id).content = editContent
             /\ Find(questions, ev.id).tags = ParseTags(editTags)
    /\ (ev.op = "qedit" /\ ev.phase = "call" /\ ev.sent)
          => /\ question # <<>>
             /\ question[1].content = editQuestionContent
             /\ question[1].tags = ParseTags(editQuestionTags)
    /\ (ev.op = "cedit" /\ ev.phase = "call" /\ ev.sent)
          => /\ HasId(comments, ev.id)
             /\ Find(comments, ev.id).content = editCommentContent

\* C23: edits and deletes are serialized per entity: at any time at most one
\* edit or delete request for one question, and at most one for one comment,
\* is outstanding
C23_EditDeleteSerialized ==
    /\ \A id \in QIds : Cardinality(Outstanding({"edit", "delete"}, id)) <= 1
    /\ \A id \in CIds : Cardinality(Outstanding({"cedit", "cdelete"}, id)) <= 1

\* ------------------------------------------------- failed delete and re-fetch
\* the feed or the thread, the viewer deleting own entities and nothing else
\* starting a request: every list or load request after the first one is the
\* re-fetch of a failed delete
InitRefetch ==
    /\ \E v \in {"feed", "thread"} : Mounted(v)
    /\ tgEnt = NoEntity
    /\ tgHist = <<>>

NextRefetch ==
    \/ \E m \in net : ServerHandle(m)
    \/ \E m \in net : ServerHandleComment(m)
    \/ \E m \in net : ServerReject(m)
    \/ \E id \in QIds, ok \in BOOLEAN : DeleteQuestion(id, ok)
    \/ \E cid \in CIds, ok \in BOOLEAN : DeleteComment(cid, ok)
    \/ \E m \in net : Deliver(m)
    \/ \E m \in net : NetFail(m)

SpecRefetch == InitRefetch /\ [][NextRefetch]_vars

\* C26: the continuation of a failed question or comment delete issues a
\* re-fetch; the server answers a fetch with exactly the entities it still
\* has; and applying a successful fetch leaves an entity in the replica if and
\* only if that answer holds it
C26_FailedDeleteRefetched ==
    [][/\ (/\ ev' # ev
           /\ ev'.phase = "done"
           /\ ev'.op \in {"delete", "cdelete"}
           /\ ev'.outcome # "ok")
          => \E x \in net' \ net :
                x.op \in {"list", "load"} /\ x.seq = nextSeq /\ x.st = "sent"
       /\ \A m \in net, x \in net' :
            (m.op = "list" /\ m.st = "sent" /\ x.seq = m.seq /\ x.st = "ok")
            => \A id \in QIds : HasId(x.data, id) <=> srvQ'[id].present
       /\ \A m \in net, x \in net' :
            (m.op = "load" /\ m.st2 = "sent" /\ x.seq = m.seq /\ x.st2 = "ok")
            => \A cid \in CIds :
                  HasId(x.data2, cid)
                  <=> (srvC'[cid].present /\ srvC'[cid].question_id = m.id)
       /\ \A m \in net :
            (/\ ev' # ev
             /\ ev'.phase = "done"
             /\ ev'.seq = m.seq
             /\ m.op = "list"
             /\ ev'.outcome = "ok")
            => \A id \in QIds : HasId(questions', id) <=> HasId(m.data, id)
       /\ \A m \in net :
            (/\ ev' # ev
             /\ ev'.phase = "done"
             /\ ev'.seq = m.seq
             /\ m.op = "load"
             /\ ev'.outcome # "netfail"
             /\ m.st2 = "ok")
            => \A cid \in CIds : HasId(comments', cid) <=> HasId(m.data2, cid)
      ]_vars

\* the delete of question 1 failed although the server kept the question, and
\* the re-fetch has put it back into the list
C26_Witness ==
    /\ ev.op = "list"
    /\ ev.phase = "done"
    /\ ev.outcome = "ok"
    /\ ev.seq > 1
    /\ ev.changed
    /\ srvQ[1].present
    /\ HasId(questions, 1)

\* ------------------------------------------------ two own questions in the feed
\* the feed of a viewer who wrote both questions, editing them
InitOwn ==
    /\ MountedOn("feed", [Question2 EXCEPT !.author = "alice"], Comment2)
    /\ tgEnt = NoEntity
    /\ tgHist = <<>>

NextOwn ==
    \/ \E m \in net : ServerHandle(m)
    \/ \E m \in net : ServerReject(m)
    \/ \E id \in QIds : StartEditQuestion(id)
    \/ CancelEditQuestion
    \/ \E c \in TypedContents : TypeEditContent(c)
    \/ \E id \in QIds : SaveEditQuestion(id)
    \/ \E m \in net : Deliver(m)
    \/ \E m \in net : NetFail(m)

SpecOwn == InitOwn /\ [][NextOwn]_vars

\* C30: the continuation of an edit request for question X leaves the edit
\* form (the edited id, the drafts, the saving flag) as it is when the form
\* is no longer editing X
C30_EditDoneKeepsOtherForm ==
    [][\A m \in net :
          (/\ ev' # ev
           /\ ev'.op = "edit"
           /\ ev'.phase = "done"
           /\ ev'.seq = m.seq
           /\ m.op = "edit"
           /\ editingQuestionId # m.id)
          => UNCHANGED feedEdit]_vars

\* ------------------------------------------------------- one send at a time
\* the sends of the mounted chat or insight window that are in flight
ChatSends == {m \in net : m.op = "chat" /\ m.src = view}

\* C28: the mounted chat or insight window has at most one send in flight,
\* and is loading exactly while it has one; a send issued while loading
\* changes nothing; an accepted send appends one user message and starts
\* loading; its continuation appends one model message and ends loading: the
\* appends of a window alternate user, model
C28_OneSendAlternating ==
    [][/\ Cardinality(ChatSends') <= 1
       /\ chatLoading' <=> (ChatSends' # {})
       /\ (ev' # ev /\ ev'.op = "chat" /\ ev'.phase = "call")
          => IF chatLoading \/ ~ev'.sent
             THEN ~ev'.sent /\ messages' = messages /\ net' = net
                  /\ chatLoading' = chatLoading
             ELSE /\ messages' = Append(messages,
                                        [role |-> "user", content |-> input])
                  /\ chatLoading'
       /\ (ev' # ev /\ ev'.op = "chat" /\ ev'.phase = "done")
          => /\ chatLoading /\ ~chatLoading'
             /\ Len(messages') = Len(messages) + 1
             /\ SubSeq(messages', 1, Len(messages)) = messages
             /\ messages'[Len(messages')].role = "model"
      ]_vars

\* a second send has been accepted after the first was answered, and a third
\* one, issued with text in the input while the second is loading, was ignored
C28_Witness ==
    /\ IsChat
    /\ ev.op = "chat"
    /\ ev.phase = "call"
    /\ ~ev.sent
    /\ chatLoading
    /\ ~IsBlankText(input)
    /\ Len(messages) = 3
    /\ messages[1].role = "user"
    /\ messages[2].role = "model"
    /\ messages[3].role = "user"

\* ------------------------------------------------------------ busy flags
\* a request in flight ends: its fetch resolves or rejects and the
\* continuation runs
RequestEnds ==
    \E m \in net : Deliver(m) \/ NetFail(m) \/ FormDeliver(m) \/ FormNetFail(m)

\* the forms, every request of which ends
SpecBusy == InitForms /\ [][NextForms]_vars /\ WF_vars(RequestEnds)

\* C29: when every request ends, every busy flag that a handler has set is
\* cleared again, whether the request succeeds or fails: no form stays disabled
C29_BusyFlagsCleared ==
    /\ feedLoading ~> ~feedLoading
    /\ savingEdit ~> ~savingEdit
    /\ posting ~> ~posting
    /\ savingComment ~> ~savingComment
    /\ savingQuestion ~> ~savingQuestion
    /\ chatLoading ~> ~chatLoading
    /\ loginLoading ~> ~loginLoading

\* a comment was posted, the request failed and the form is enabled again
C29_Witness ==
    /\ ev.op = "post"
    /\ ev.phase = "done"
    /\ ev.outcome \in {"rej", "netfail"}
    /\ ~posting
    /\ ~IsBlankText(commentInput)

\* ------------------------------------------------------------------ App.tsx
\* type Role (line 9)
Roles == {"student", "lecturer"}

\* what is rendered in the main area (lines 121-127)
Rendered ==
    (IF view = "forum" THEN {"ForumFeed"} ELSE {}) \cup
    (IF view = "chat" /\ role = "student" THEN {"AIChatWindow"} ELSE {}) \cup
    (IF view = "monitoring" /\ role = "lecturer"
     THEN {"LecturerInsightBoard"} ELSE {})

\* the polling effects of the mounted components with their dependencies:
\* ForumFeed.tsx lines 59-63 [user], Markdown.tsx lines 167-171
\* [questionId, usernameQuery]
EffectsOf(u, v, sel) ==
    (IF FeedMountedIn(u, v)
     THEN {[owner |-> "feed", user |-> u, questionId |-> NoId]} ELSE {}) \cup
    (IF ThreadMountedIn(u, v, sel)
     THEN {[owner |-> "thread", user |-> u, questionId |-> sel]} ELSE {})

\* a plausible slip: the effects return no cleanup function
CommitNoCleanup(active, before, now) == active \cup (now \ before)

\* React commits a render: the cleanup of every effect that is unmounted or
\* whose dependencies changed runs (clearInterval), then the new effects run
\* (setInterval)
Commit(active, before, now) == (active \ (before \ now)) \cup (now \ before)

\* the chat window rendered in the main area (lines 123-126), None for none
WindowIn(u, r, v) ==
    IF u # None /\ v = "chat" /\ r = "student" THEN "chat"
    ELSE IF u # None /\ v = "monitoring" /\ r = "lecturer" THEN "insight"
    ELSE None

\* the App state becomes (u2, r2, v2) and ForumFeed's selectedQuestionId sel2;
\* fresh: the user is a new object (setUser of handleLogin).  Components are
\* unmounted and mounted.  A mounted component starts with its useState
\* defaults and its effects run: ForumFeed and QuestionThread fetch and poll,
\* AIChatWindow and LecturerInsightBoard fetch the history (AIChatWindow.tsx
\* lines 15-37, App.tsx lines 140-154).  The effects of a component that stays
\* mounted run again when their dependencies changed: [user] (ForumFeed.tsx
\* line 63), [questionId, usernameQuery] (Markdown.tsx line 171), [sessionId]
\* (AIChatWindow.tsx line 37, App.tsx line 154), those of the child first.
\* What an unmounted component left in flight finds no component
Navigate(u2, r2, v2, sel2, fresh) ==
    LET feedWas == FeedMountedIn(user, view)
        feedNow == FeedMountedIn(u2, v2)
        sel == IF feedWas /\ feedNow THEN sel2 ELSE NoId
        threadWas == ThreadMountedIn(user, view, selectedQuestionId)
        threadNow == ThreadMountedIn(u2, v2, sel)
        threadStays == threadWas /\ threadNow /\ sel = selectedQuestionId
        winWas == WindowIn(user, role, view)
        winNow == WindowIn(u2, r2, v2)
        feedMounts == feedNow /\ ~feedWas
        feedReruns == feedNow /\ feedWas /\ fresh
        threadMounts == threadNow /\ ~threadStays
        threadReruns == threadStays /\ u2 # user
        winMounts == winNow # None /\ winWas # winNow
        winReruns == winNow # None /\ winWas = winNow /\ u2 # user
        loginMounts == u2 = None /\ user # None
        goneSrc == (IF feedWas /\ ~feedNow THEN {"feed"} ELSE {}) \cup
                   (IF threadWas /\ ~threadStays THEN {"thread", "post"} ELSE {}) \cup
                   (IF winWas # None /\ winWas # winNow THEN {winWas} ELSE {})
        kept == {IF x.src \in goneSrc THEN [x EXCEPT !.src = GoneSrc(x.src)] ELSE x :
                    x \in net}
        loads == IF threadMounts \/ threadReruns
                 THEN {[Msg(nextSeq, "thread", "load", sel, u2, NoArg, <<>>)
                          EXCEPT !.qid = sel]}
                 ELSE {}
        lists == IF feedMounts \/ feedReruns
                 THEN {Msg(nextSeq + Cardinality(loads), "feed", "list", NoId, u2,
                           NoArg, <<>>)}
                 ELSE {}
        hists == IF winMounts \/ winReruns
                 THEN {HistoryMsg(nextSeq, winNow, u2)}
                 ELSE {}
        fetch == loads \cup lists \cup hists
    IN  /\ fetch # {} => nextSeq + Cardinality(fetch) - 1 <= MaxAppReq
        /\ user' = u2
        /\ role' = r2
        /\ view' = v2
        /\ selectedQuestionId' = sel
        /\ intervals' = Commit(intervals,
                               EffectsOf(user, view, selectedQuestionId),
                               EffectsOf(u2, v2, sel))
        /\ net' = kept \cup fetch
        /\ nextSeq' = nextSeq + Cardinality(fetch)
        /\ IF feedMounts
           THEN /\ questions' = <<>>
                /\ CancelEditState
                /\ inputContent' = <<>>
                /\ inputTags' = <<>>
                /\ feedLoading' = FALSE
           ELSE UNCHANGED <<feedVars, feedForm>>
        /\ IF threadMounts
           THEN /\ question' = <<>>
                /\ comments' = <<>>
                /\ loading' = TRUE
                /\ ThreadCancelEditState
                /\ CancelEditCommentState
                /\ commentInput' = <<>>
                /\ posting' = FALSE
           ELSE /\ loading' = IF threadReruns THEN TRUE ELSE loading
                /\ UNCHANGED <<question, comments, threadQEdit, threadCEdit, threadForm>>
        /\ IF winMounts
           THEN /\ messages' = <<>>
                /\ input' = <<>>
                /\ chatLoading' = FALSE
           ELSE UNCHANGED chatVars
        /\ IF loginMounts
           THEN /\ username' = <<>>
                /\ loginLoading' = FALSE
                /\ error' = None
           ELSE UNCHANGED loginVars
        /\ UNCHANGED <<srvVars, applied, timers, tgVars, srvHist>>

\* handleLogin (lines 29-32): called by LoginModal, by the localStorage effect
\* (lines 22-27), or by the continuation of a login request that the modal
\* sent before it was unmounted (LoginModal.tsx lines 16-38 send one request
\* per submit), which finds a user logged in
AppLogin(u) ==
    /\ Navigate(u, role, view, selectedQuestionId, TRUE)
    /\ ev' = Ev("login", "call", NoId, None, None, <<>>, <<>>, 0)

\* the logout button (lines 71-79)
Logout ==
    /\ user # None
    /\ Navigate(None, role, view, NoId, FALSE)
    /\ ev' = Ev("logout", "call", NoId, None, None, <<>>, <<>>, 0)

\* a plausible slip: the role is switched and the view is kept
HandleRoleChangeKeepView(newRole) ==
    /\ user # None
    /\ newRole # role
    /\ Navigate(user, newRole, view, selectedQuestionId, FALSE)
    /\ ev' = Ev("role", "call", NoId, None, None, <<>>, <<>>, 0)

\* handleRoleChange (lines 34-38), from the mode button (lines 65-70)
HandleRoleChange(newRole) ==
    /\ user # None
    /\ newRole # role
    /\ Navigate(user, newRole, IF newRole = "student" THEN "forum" ELSE "monitoring",
                selectedQuestionId, FALSE)
    /\ ev' = Ev("role", "call", NoId, None, None, <<>>, <<>>, 0)

\* a click on a tab (lines 86-117): the forum tab is always rendered, the chat
\* tab for students, the monitoring tab for lecturers
ClickTab(v) ==
    /\ user # None
    /\ v = "chat" => role = "student"
    /\ v = "monitoring" => role = "lecturer"
    /\ view # v
    /\ Navigate(user, role, v, selectedQuestionId, FALSE)
    /\ ev' = Ev("tab", "call", NoId, None, None, <<>>, <<>>, 0)

\* openThread (ForumFeed.tsx lines 173-177), from a question of the list
OpenThread(id) ==
    /\ FeedMountedIn(user, view)
    /\ selectedQuestionId = NoId
    /\ HasId(questions, id)
    /\ Navigate(user, role, view, id, FALSE)
    /\ ev' = Ev("open", "call", id, None, None, <<>>, <<>>, 0)

\* onBack of the thread (ForumFeed.tsx line 252)
Back ==
    /\ ThreadMountedIn(user, view, selectedQuestionId)
    /\ Navigate(user, role, view, NoId, FALSE)
    /\ ev' = Ev("back", "call", NoId, None, None, <<>>, <<>>, 0)

\* an interval fires: fetchQuestions() (ForumFeed.tsx line 61) or
\* load({ silent: true }) (Markdown.tsx line 169), with the closure's values
AppTick(i) ==
    /\ i \in intervals
    /\ nextSeq <= MaxAppReq
    /\ Cardinality(net) < MaxInFlight
    /\ net' = net \cup
              {IF i.owner = "feed"
               THEN Msg(nextSeq, "feed", "list", NoId, i.user, NoArg, <<>>)
               ELSE [Msg(nextSeq, "thread", "load", i.questionId, i.user,
                         [NoArg EXCEPT !.silent = TRUE], <<>>)
                       EXCEPT !.qid = i.questionId]}
    /\ nextSeq' = nextSeq + 1
    /\ UNCHANGED <<srvVars, applied, propVars, feedVars, threadVars, tgVars, appVars,
                   formVars>>
    /\ ev' = Ev("poll", "call", NoId, None, None, <<>>, <<>>, nextSeq)

\* App after construction: useState defaults (lines 18-20), the login modal
\* is shown
InitApp ==
    /\ Mounted("forum")
    /\ user = None
    /\ tgEnt = NoEntity
    /\ tgHist = <<>>

NextApp ==
    \/ \E u \in Users : AppLogin(u)
    \/ Logout
    \/ \E r \in Roles : HandleRoleChange(r)
    \/ \E v \in {"forum", "chat", "monitoring"} : ClickTab(v)
    \/ \E id \in QIds : OpenThread(id)
    \/ Back
    \/ \E i \in intervals : AppTick(i)
    \/ \E id \in QIds, k \in ClickKinds : HandleReaction(id, k)
    \/ \E cid \in CIds : DeleteComment(cid, TRUE)
    \/ \E c \in {TextB} : TypeInputContent(c)
    \/ \E c \in {TextB} : TypeComment(c)
    \/ \E m \in net : ServerHandle(m)
    \/ \E m \in net : ServerHandleComment(m)
    \/ \E m \in net : ServerHandleForm(m)
    \/ \E m \in net : ServerReject(m)
    \/ \E m \in net : Deliver(m)
    \/ \E m \in net : NetFail(m)
    \/ \E m \in net : FormDeliver(m)
    \/ \E m \in net : FormNetFail(m)

SpecApp == InitApp /\ [][NextApp]_vars

\* the active timers a component owns
TimersOf(owner) == {i \in intervals : i.owner = owner}

\* C22: a mounted ForumFeed owns exactly one active polling timer and so does
\* a mounted QuestionThread; every active timer belongs to a mounted
\* component and was set for the current user and question id; and a
\* component rendered on its own, whose user prop changes, has the one timer
\* that was set for its current user
C22_OneTimerPerMountedView ==
    /\ view \in {"feed", "thread"} => timers = {user}
    /\ FeedMountedIn(user, view) => Cardinality(TimersOf("feed")) = 1
    /\ ThreadMountedIn(user, view, selectedQuestionId)
          => Cardinality(TimersOf("thread")) = 1
    /\ \A i \in intervals :
          /\ i.user = user
          /\ i.owner = "feed" => FeedMountedIn(user, view)
          /\ i.owner = "thread"
                => /\ ThreadMountedIn(user, view, selectedQuestionId)
                   /\ i.questionId = selectedQuestionId

\* a thread was open when the user left the forum: a request of the thread is
\* still in flight, and no timer is left
C22_Witness ==
    /\ user # None
    /\ view # "forum"
    /\ intervals = {}
    /\ \E m \in net : m.src = "gone_thread" /\ m.op = "load"

\* C27: the chat view is shown to students only and the monitoring view to
\* lecturers only, and for a logged-in user the main area renders exactly one
\* component
C27_ViewMatchesRole ==
    /\ view = "chat" => role = "student"
    /\ view = "monitoring" => role = "lecturer"
    /\ user # None => Cardinality(Rendered) = 1

\* a logged-in student has switched to the lecturer mode: the feed was
\* unmounted and the insight board is rendered
C27_Witness ==
    /\ ev.op = "role"
    /\ role = "lecturer"
    /\ view = "monitoring"
    /\ Rendered = {"LecturerInsightBoard"}
    /\ \E m \in net : IsGone(m.src)

====
